---- MODULE Spec2Model ----
(***************************************************************************)
(* Comment routes of the DIU backend (registerCommentRoutes): the comment  *)
(* and comment-like tables, and the create / list / toggle-like / delete   *)
(* handlers, each cut into the steps between its awaited database calls.   *)
(***************************************************************************)
EXTENDS Integers, Sequences, FiniteSets, TLC

\* ------------------------------------------------------------------ bounds
MaxComments == 2      \* comment ids handed out in one behaviour
MaxLikes == 3         \* comment-like ids handed out in one behaviour
MaxChain == 3         \* comments of the pre-populated reply chain of the like runs
MaxEdit == 2          \* comments of the pre-populated reply chain of the edit runs
MaxTree == 4          \* comments of a pre-populated forest of the read runs
SmallRoots == 3       \* the paging runs read 0..SmallRoots roots, or BigRoots-1..BigRoots
BigRoots == 102
MaxPages == 4         \* pages one page-by-page reading may take

\* ------------------------------------------------------- program constants
DefaultLimit == <<"2", "0">>
DefaultOffset == <<"0">>
LimitCap == 100

\* --------------------------------------------------------------- universes
ReqIds == {"r1", "r2"}
Users == {"u1", "u2"}
NoUser == "nobody"
PostIds == {"p0", "p1", "p2"}
posts == {"p1", "p2"}
userProfiles == {[userId |-> "u1", username |-> "alice"]}

Undefined == <<"undefined">>
DigitChars == <<"0", "1", "2", "3", "4", "5", "6", "7", "8", "9">>
IsDigit(c) == \E i \in 1..10 : DigitChars[i] = c
DigitVal(c) == (CHOOSE i \in 1..10 : DigitChars[i] = c) - 1
IsSpace(c) == c = " "

\* ------------------------------------------------------------ JS numerics
NaN == [nan |-> TRUE, v |-> 0]
Num(n) == [nan |-> FALSE, v |-> n]

RECURSIVE SkipSpaces(_)
SkipSpaces(s) ==
  IF s # <<>> /\ IsSpace(Head(s)) THEN SkipSpaces(Tail(s)) ELSE s

RECURSIVE DigitPrefix(_)
DigitPrefix(s) ==
  IF s # <<>> /\ IsDigit(Head(s)) THEN <<Head(s)>> \o DigitPrefix(Tail(s)) ELSE <<>>

RECURSIVE DigitsValue(_)
DigitsValue(d) ==
  IF d = <<>> THEN 0
  ELSE 10 * DigitsValue(SubSeq(d, 1, Len(d) - 1)) + DigitVal(d[Len(d)])

\* parseInt(string): leading white space, an optional sign, then the longest
\* run of decimal digits; NaN when there is no digit.
parseInt(str) ==
  LET s == SkipSpaces(str)
      signed == s # <<>> /\ Head(s) \in {"-", "+"}
      sign == IF s # <<>> /\ Head(s) = "-" THEN -1 ELSE 1
      digits == DigitPrefix(IF signed THEN Tail(s) ELSE s)
  IN IF digits = <<>> THEN NaN ELSE Num(sign * DigitsValue(digits))

MathMin(a, b) ==
  IF a.nan \/ b.nan THEN NaN ELSE IF a.v <= b.v THEN a ELSE b

NumAdd(a, b) == IF a.nan \/ b.nan THEN NaN ELSE Num(a.v + b.v)

\* query.x || dflt : undefined and the empty string are falsy
OrDefault(q, dflt) == IF q = Undefined \/ q = <<>> THEN dflt ELSE q

\* ToIntegerOrInfinity followed by the relative-index clamp of Array.slice
RelIndex(n, len) ==
  LET i == IF n.nan THEN 0 ELSE n.v
  IN IF i < 0 THEN (IF len + i < 0 THEN 0 ELSE len + i)
     ELSE (IF i > len THEN len ELSE i)

\* Array.prototype.slice(start, end)
slice(arr, start, end) ==
  LET k == RelIndex(start, Len(arr))
      final == RelIndex(end, Len(arr))
  IN IF k >= final THEN <<>> ELSE SubSeq(arr, k + 1, final)

\* String.prototype.trim
RECURSIVE TrimRight(_)
TrimRight(s) ==
  IF s # <<>> /\ IsSpace(s[Len(s)]) THEN TrimRight(SubSeq(s, 1, Len(s) - 1)) ELSE s
trim(s) == TrimRight(SkipSpaces(s))

\* !content || typeof content !== 'string' || content.trim().length === 0
InvalidContent(content) ==
  content = Undefined \/ content = <<>> \/ Len(trim(content)) = 0

\* ------------------------------------------------------------------- state
VARIABLES
  comments,        \* table comments: a set of rows
  commentLikes,    \* table comment_likes: a set of rows
  nextCommentId,   \* next uuid of comments.id
  nextLikeId,      \* next uuid of comment_likes.id
  req,             \* the requests in flight: parameters, locals, position, response
  pager,           \* a client reading the root list page by page
  client,          \* the mobile client: what it sent, received and shows
  likes,           \* table likes (post likes): a set of rows
  nextPostLikeId,  \* next uuid of likes.id
  profiles,        \* table user_profiles while the username handlers run
  home,            \* the home feed screen and its like presses
  createPost,      \* the create-post screen with its ad modal
  auth             \* the AuthProvider, its calls in flight and the session

vars == <<comments, commentLikes, nextCommentId, nextLikeId, req, pager, client,
          likes, nextPostLikeId, profiles, home, createPost, auth>>

\* the state outside the comment routes and their clients
appVars == <<likes, nextPostLikeId, profiles, home, createPost, auth>>

NoComment == [id |-> 0, postId |-> "p0", userId |-> NoUser, content |-> <<>>,
              parentCommentId |-> 0, createdAt |-> 0]
NoLike == [id |-> 0, commentId |-> 0, userId |-> NoUser]
EmptyMap == [x \in {} |-> 0]

IdleReq ==
  [kind |-> "idle", pc |-> "idle", user |-> NoUser,
   postId |-> "p0", content |-> Undefined, parentCommentId |-> 0, commentId |-> 0,
   query |-> [limit |-> Undefined, offset |-> Undefined], limit |-> NaN, offset |-> NaN,
   parentComment |-> NoComment, allComments |-> <<>>,
   userProfilesMap |-> EmptyMap, commentLikeCountMap |-> EmptyMap,
   existingLike |-> NoLike, liked |-> FALSE,
   currentUserId |-> NoUser,
   status |-> 0, message |-> "", created |-> NoComment, tree |-> <<>>,
   likeCount |-> 0, stack |-> <<>>, visited |-> <<>>, failed |-> "",
   existingPostLike |-> [id |-> 0, postId |-> "p0", userId |-> NoUser], likeId |-> 0,
   username |-> Undefined, bio |-> Undefined, newUsername |-> <<>>,
   existingProfile |-> [userId |-> NoUser, username |-> <<>>, bio |-> <<>>]]

IdlePager == [active |-> FALSE, waiting |-> FALSE, limit |-> 0, offset |-> 0,
              pages |-> <<>>, done |-> FALSE]

IdleClient ==
  [comments |-> <<>>, loaded |-> FALSE, commentsData |-> <<>>,
   user |-> NoUser, commentId |-> 0, sent |-> 0, waiting |-> FALSE,
   likesBefore |-> {}, countBefore |-> 0, answers |-> <<>>]

\* a call of handleLike of the home feed that has not been made
IdlePress == [pc |-> "idle", postId |-> "p1", wasLiked |-> FALSE,
              before |-> [hasLiked |-> FALSE, likeCount |-> 0], response |-> <<>>]

MaxPresses == 2

\* posts: the state of the feed screen; server: what GET /api/posts tells
\* about the post; calls: the calls of handleLike
IdleHome == [user |-> NoUser, posts |-> <<>>, showAuthModal |-> FALSE,
             server |-> [hasLiked |-> FALSE, likeCount |-> 0],
             calls |-> [k \in 1..MaxPresses |-> IdlePress]]

MaxFetches == 2

IdleCreatePost == [version |-> "none", content |-> <<>>, mediaUri |-> FALSE,
                   showAdModal |-> FALSE, adCountdown |-> 0, timer |-> -1,
                   loading |-> FALSE, errorModal |-> FALSE, event |-> "none"]

\* a call of fetchUser that has not been made; result is what getSession gave
IdleFetch == [pc |-> "idle", result |-> NoUser, threw |-> FALSE]

\* user, loading: the state of the AuthProvider; session: the user of the
\* session the auth server holds; credential: whether the device stores what
\* getSession authenticates with; signedOut: a signOut call has completed and
\* no sign-in has succeeded since
IdleAuth == [user |-> NoUser, loading |-> FALSE, session |-> NoUser, credential |-> FALSE,
             fetches |-> [k \in 1..MaxFetches |-> IdleFetch],
             signOut |-> "idle", signIn |-> "idle", signedOut |-> FALSE]

\* nothing outside the comment routes is in use
AppIdle ==
  /\ likes = {} /\ nextPostLikeId = 1 /\ profiles = {}
  /\ home = IdleHome /\ createPost = IdleCreatePost /\ auth = IdleAuth

\* the comment routes and their clients are not in use
CommentsIdle ==
  /\ comments = {} /\ commentLikes = {} /\ nextCommentId = 1 /\ nextLikeId = 1
  /\ pager = IdlePager /\ client = IdleClient

\* ----------------------------------------------------------- table lookups
\* db.query.comments.findFirst({ where: eq(comments.id, id) })
FindComment(id) ==
  IF \E c \in comments : c.id = id
  THEN CHOOSE c \in comments : c.id = id
  ELSE NoComment

\* db.query.commentLikes.findFirst({ where: and(eq(commentId), eq(userId)) })
FindLikes(commentId, userId) ==
  {l \in commentLikes : l.commentId = commentId /\ l.userId = userId}

\* variant: the count query without its where clause
CountLikes_AllRows(commentId) == Cardinality(commentLikes)

\* select count(comment_likes.id) where comment_id = commentId
CountLikes(commentId) ==
  Cardinality({l \in commentLikes : l.commentId = commentId})

\* variant: the username of the profile without the 'anonymous' fallback
ProfileName_NoFallback(userId) ==
  IF \E p \in userProfiles : p.userId = userId
  THEN (CHOOSE p \in userProfiles : p.userId = userId).username
  ELSE ""

\* db.query.userProfiles.findFirst({ where: eq(userProfiles.userId, userId) })
\* followed by profile?.username || 'anonymous'
ProfileName(userId) ==
  IF \E p \in userProfiles : p.userId = userId
  THEN (CHOOSE p \in userProfiles : p.userId = userId).username
  ELSE "anonymous"

\* variant: the cascade stops at the direct replies
CascadeIds_DirectOnly(ids, rows) ==
  ids \cup {c.id : c \in {x \in rows : x.parentCommentId \in ids}}

\* rows removed by ON DELETE cascade of comments.parent_comment_id
RECURSIVE CascadeIds(_, _)
CascadeIds(ids, rows) ==
  LET more == {c.id : c \in {x \in rows : x.parentCommentId \in ids}} \ ids
  IN IF more = {} THEN ids ELSE CascadeIds(ids \cup more, rows)

\* Response of a finished request
Respond(q, status, message) ==
  [q EXCEPT !.pc = "done", !.status = status, !.message = message]

\* A finished response is handed back to its client before any other step is
\* taken: Deliver touches nothing but its own slot, so no database
\* interleaving is lost.
NoResponsePending == \A r \in ReqIds : req[r].pc # "done"

InFlight(kind) == Cardinality({r \in ReqIds : req[r].kind = kind /\ req[r].pc # "done"})

\* ------------------------------------------------ request input universes
Sessions == Users \cup {NoUser}
ContentInputs == {Undefined, <<" ">>, <<" ", "a">>}
CommentIdInputs == 1..MaxComments
ParentInputs == {0} \cup CommentIdInputs
EditInputs == {<<" ">>, <<"b", " ">>}
LimitInputs == {Undefined, <<"1">>}
OffsetInputs == {Undefined, <<"1">>}

Set(q, r) == req' = [req EXCEPT ![r] = q]
DbUnchanged == UNCHANGED <<comments, commentLikes, nextCommentId, nextLikeId>>

\* ------------------------------------- POST /api/posts/:postId/comments
\* requireAuth, then the content check (no database call in between)
CreateStart(r, user, postId, content, parentCommentId) ==
  /\ NoResponsePending /\ req[r].kind = "idle"
  /\ nextCommentId + InFlight("create") <= MaxComments
  /\ LET q == [IdleReq EXCEPT !.kind = "create", !.user = user, !.postId = postId,
                              !.content = content, !.parentCommentId = parentCommentId]
     IN Set(IF user = NoUser THEN Respond(q, 401, "Unauthorized")
            ELSE IF InvalidContent(content)
              THEN Respond(q, 400, "Comment content is required and must be non-empty")
            ELSE [q EXCEPT !.pc = "c_post"], r)
  /\ DbUnchanged /\ UNCHANGED <<pager, client, appVars>>

\* posts.findFirst: 404 when the post is missing
CreateFindPost(r) ==
  /\ NoResponsePending /\ req[r].kind = "create" /\ req[r].pc = "c_post"
  /\ Set(IF req[r].postId \notin posts THEN Respond(req[r], 404, "Post not found")
         ELSE IF req[r].parentCommentId # 0 THEN [req[r] EXCEPT !.pc = "c_parent"]
         ELSE [req[r] EXCEPT !.pc = "c_insert"], r)
  /\ DbUnchanged /\ UNCHANGED <<pager, client, appVars>>

\* variant: the parent is only looked up, its post is not compared
CreateFindParent_NoPostCheck(r) ==
  /\ NoResponsePending /\ req[r].kind = "create" /\ req[r].pc = "c_parent"
  /\ LET parentComment == FindComment(req[r].parentCommentId)
         q == [req[r] EXCEPT !.parentComment = parentComment]
     IN Set(IF parentComment.id = 0 THEN Respond(q, 404, "Parent comment not found")
            ELSE [q EXCEPT !.pc = "c_insert"], r)
  /\ DbUnchanged /\ UNCHANGED <<pager, client, appVars>>

\* variant: the post of the parent is compared (parentComment?.postId) before
\* the parent is known to exist
CreateFindParent_PostCheckFirst(r) ==
  /\ NoResponsePending /\ req[r].kind = "create" /\ req[r].pc = "c_parent"
  /\ LET parentComment == FindComment(req[r].parentCommentId)
         q == [req[r] EXCEPT !.parentComment = parentComment]
     IN Set(IF parentComment.postId # q.postId
              THEN Respond(q, 400, "Parent comment must belong to the same post")
            ELSE IF parentComment.id = 0 THEN Respond(q, 404, "Parent comment not found")
            ELSE [q EXCEPT !.pc = "c_insert"], r)
  /\ DbUnchanged /\ UNCHANGED <<pager, client, appVars>>

\* comments.findFirst on the parent: 404 when missing, 400 when of another post
CreateFindParent(r) ==
  /\ NoResponsePending /\ req[r].kind = "create" /\ req[r].pc = "c_parent"
  /\ LET parentComment == FindComment(req[r].parentCommentId)
         q == [req[r] EXCEPT !.parentComment = parentComment]
     IN Set(IF parentComment.id = 0 THEN Respond(q, 404, "Parent comment not found")
            ELSE IF parentComment.postId # q.postId
              THEN Respond(q, 400, "Parent comment must belong to the same post")
            ELSE [q EXCEPT !.pc = "c_insert"], r)
  /\ DbUnchanged /\ UNCHANGED <<pager, client, appVars>>

\* created_at defaultNow(): the clock never runs backwards, and two inserts may
\* fall into the same tick. Only the order of the timestamps is kept.
defaultNow ==
  LET last == IF comments = {} THEN 0
              ELSE (CHOOSE c \in comments : \A d \in comments : d.createdAt <= c.createdAt).createdAt
  IN IF comments = {} THEN {1} ELSE {last, last + 1}

\* variant: parent_comment_id declared without references(() => comments.id)
CommentForeignKeysHold_NoParentKey(row) == row.postId \in posts

\* foreign keys of table comments: post_id -> posts.id, parent_comment_id -> comments.id
CommentForeignKeysHold(row) ==
  /\ row.postId \in posts
  /\ row.parentCommentId # 0 => \E c \in comments : c.id = row.parentCommentId

\* insert(comments).values(...).returning(...); a constraint violation throws
CreateInsert(r) ==
  /\ NoResponsePending /\ req[r].kind = "create" /\ req[r].pc = "c_insert"
  /\ \E t \in defaultNow :
       LET row == [id |-> nextCommentId, postId |-> req[r].postId,
                   userId |-> req[r].user, content |-> trim(req[r].content),
                   parentCommentId |-> req[r].parentCommentId, createdAt |-> t]
       IN IF CommentForeignKeysHold(row)
          THEN /\ comments' = comments \cup {row}
               /\ nextCommentId' = nextCommentId + 1
               /\ Set([Respond(req[r], 200, "") EXCEPT !.created = row], r)
          ELSE /\ Set(Respond(req[r], 500, "Internal Server Error"), r)
               /\ UNCHANGED <<comments, nextCommentId>>
  /\ UNCHANGED <<commentLikes, nextLikeId, pager, client, appVars>>

\* ------------------------------------------ DELETE /api/comments/:commentId
DeleteStart(r, user, commentId) ==
  /\ NoResponsePending /\ req[r].kind = "idle"
  /\ LET q == [IdleReq EXCEPT !.kind = "delete", !.user = user, !.commentId = commentId]
     IN Set(IF user = NoUser THEN Respond(q, 401, "Unauthorized")
            ELSE [q EXCEPT !.pc = "d_find"], r)
  /\ DbUnchanged /\ UNCHANGED <<pager, client, appVars>>

\* variant: the delete handler without the check of the comment found
DeleteFind_NoMissingCheck(r) ==
  /\ NoResponsePending /\ req[r].kind = "delete" /\ req[r].pc = "d_find"
  /\ LET comment == FindComment(req[r].commentId)
     IN Set(IF comment.id # 0 /\ comment.userId # req[r].user
              THEN Respond(req[r], 403, "You can only delete your own comments")
            ELSE [req[r] EXCEPT !.pc = "d_delete"], r)
  /\ DbUnchanged /\ UNCHANGED <<pager, client, appVars>>

\* comments.findFirst, then the ownership check
DeleteFind(r) ==
  /\ NoResponsePending /\ req[r].kind = "delete" /\ req[r].pc = "d_find"
  /\ LET comment == FindComment(req[r].commentId)
     IN Set(IF comment.id = 0 THEN Respond(req[r], 404, "Comment not found")
            ELSE IF comment.userId # req[r].user
              THEN Respond(req[r], 403, "You can only delete your own comments")
            ELSE [req[r] EXCEPT !.pc = "d_delete"], r)
  /\ DbUnchanged /\ UNCHANGED <<pager, client, appVars>>

\* delete(comments).where(eq(comments.id, commentId)), with the cascades
DeleteExec(r) ==
  /\ NoResponsePending /\ req[r].kind = "delete" /\ req[r].pc = "d_delete"
  /\ LET gone == IF \E c \in comments : c.id = req[r].commentId
                 THEN CascadeIds({req[r].commentId}, comments) ELSE {}
     IN /\ comments' = {c \in comments : c.id \notin gone}
        /\ commentLikes' = {l \in commentLikes : l.commentId \notin gone}
  /\ Set(Respond(req[r], 200, ""), r)
  /\ UNCHANGED <<nextCommentId, nextLikeId, pager, client, appVars>>

\* --------------------------------------------- PUT /api/comments/:commentId
\* requireAuth, then the content check
UpdateStart(r, user, commentId, content) ==
  /\ NoResponsePending /\ req[r].kind = "idle"
  /\ LET q == [IdleReq EXCEPT !.kind = "update", !.user = user, !.commentId = commentId,
                              !.content = content]
     IN Set(IF user = NoUser THEN Respond(q, 401, "Unauthorized")
            ELSE IF InvalidContent(content)
              THEN Respond(q, 400, "Comment content is required and must be non-empty")
            ELSE [q EXCEPT !.pc = "u_find"], r)
  /\ DbUnchanged /\ UNCHANGED <<pager, client, appVars>>

\* variant: the update handler without the ownership check
UpdateFind_NoOwnerCheck(r) ==
  /\ NoResponsePending /\ req[r].kind = "update" /\ req[r].pc = "u_find"
  /\ Set(IF FindComment(req[r].commentId).id = 0
         THEN Respond(req[r], 404, "Comment not found")
         ELSE [req[r] EXCEPT !.pc = "u_update"], r)
  /\ DbUnchanged /\ UNCHANGED <<pager, client, appVars>>

\* comments.findFirst, then the ownership check
UpdateFind(r) ==
  /\ NoResponsePending /\ req[r].kind = "update" /\ req[r].pc = "u_find"
  /\ LET comment == FindComment(req[r].commentId)
     IN Set(IF comment.id = 0 THEN Respond(req[r], 404, "Comment not found")
            ELSE IF comment.userId # req[r].user
              THEN Respond(req[r], 403, "You can only update your own comments")
            ELSE [req[r] EXCEPT !.pc = "u_update"], r)
  /\ DbUnchanged /\ UNCHANGED <<pager, client, appVars>>

\* variant: the update also detaches the row from its parent
UpdateExec_Reparent(r) ==
  /\ NoResponsePending /\ req[r].kind = "update" /\ req[r].pc = "u_update"
  /\ comments' = {IF c.id = req[r].commentId
                  THEN [c EXCEPT !.content = trim(req[r].content), !.parentCommentId = 0]
                  ELSE c : c \in comments}
  /\ Set(Respond(req[r], 200, ""), r)
  /\ UNCHANGED <<commentLikes, nextCommentId, nextLikeId, pager, client, appVars>>

\* update(comments).set({ content: content.trim(), updatedAt }).where(eq(id))
\* .returning(): the row written, or nothing when the row is gone by now.
\* updated_at is read by no handler; the rows of the model do not carry it.
UpdateExec(r) ==
  /\ NoResponsePending /\ req[r].kind = "update" /\ req[r].pc = "u_update"
  /\ comments' = {IF c.id = req[r].commentId
                  THEN [c EXCEPT !.content = trim(req[r].content)]
                  ELSE c : c \in comments}
  /\ LET updated == {c \in comments' : c.id = req[r].commentId}
     IN \E row \in (IF updated = {} THEN {NoComment} ELSE updated) :
          Set([Respond(req[r], 200, "") EXCEPT !.created = row], r)
  /\ UNCHANGED <<commentLikes, nextCommentId, nextLikeId, pager, client, appVars>>

\* ---------------------------------------- POST /api/comments/:commentId/like
ToggleStart(r, user, commentId) ==
  /\ NoResponsePending /\ req[r].kind = "idle"
  /\ nextLikeId + InFlight("toggle") <= MaxLikes
  /\ LET q == [IdleReq EXCEPT !.kind = "toggle", !.user = user, !.commentId = commentId]
     IN Set(IF user = NoUser THEN Respond(q, 401, "Unauthorized")
            ELSE [q EXCEPT !.pc = "t_find"], r)
  /\ DbUnchanged /\ UNCHANGED <<pager, client, appVars>>

\* comments.findFirst: 404 when the comment is missing
ToggleFindComment(r) ==
  /\ NoResponsePending /\ req[r].kind = "toggle" /\ req[r].pc = "t_find"
  /\ Set(IF FindComment(req[r].commentId).id = 0
         THEN Respond(req[r], 404, "Comment not found")
         ELSE [req[r] EXCEPT !.pc = "t_existing"], r)
  /\ DbUnchanged /\ UNCHANGED <<pager, client, appVars>>

\* commentLikes.findFirst for (commentId, session user)
ToggleFindLike(r) ==
  /\ NoResponsePending /\ req[r].kind = "toggle" /\ req[r].pc = "t_existing"
  /\ LET found == FindLikes(req[r].commentId, req[r].user)
     IN \E existingLike \in (IF found = {} THEN {NoLike} ELSE found) :
          Set([req[r] EXCEPT !.existingLike = existingLike, !.pc = "t_write"], r)
  /\ DbUnchanged /\ UNCHANGED <<pager, client, appVars>>

\* variant: table comment_likes without the unique index
LikeConstraintsHold_NoUniqueIndex(row) == \E c \in comments : c.id = row.commentId

\* constraints of table comment_likes: comment_id -> comments.id and the
\* unique index unique_comment_like on (comment_id, user_id)
LikeConstraintsHold(row) ==
  /\ \E c \in comments : c.id = row.commentId
  /\ \A l \in commentLikes : ~(l.commentId = row.commentId /\ l.userId = row.userId)

\* variant: the unlike removes the likes of the comment instead of the like found
ToggleWrite_DeleteByComment(r) ==
  /\ NoResponsePending /\ req[r].kind = "toggle" /\ req[r].pc = "t_write"
  /\ IF req[r].existingLike.id # 0
     THEN /\ commentLikes' = {l \in commentLikes : l.commentId # req[r].commentId}
          /\ Set([req[r] EXCEPT !.pc = "t_count"], r)
          /\ UNCHANGED nextLikeId
     ELSE LET row == [id |-> nextLikeId, commentId |-> req[r].commentId,
                      userId |-> req[r].user]
          IN /\ commentLikes' = commentLikes \cup {row}
             /\ nextLikeId' = nextLikeId + 1
             /\ Set([req[r] EXCEPT !.liked = TRUE, !.pc = "t_count"], r)
  /\ UNCHANGED <<comments, nextCommentId, pager, client, appVars>>

\* delete(commentLikes) by id when a like was found, insert(commentLikes) otherwise
ToggleWrite(r) ==
  /\ NoResponsePending /\ req[r].kind = "toggle" /\ req[r].pc = "t_write"
  /\ IF req[r].existingLike.id # 0
     THEN /\ commentLikes' = {l \in commentLikes : l.id # req[r].existingLike.id}
          /\ Set([req[r] EXCEPT !.pc = "t_count"], r)
          /\ UNCHANGED nextLikeId
     ELSE LET row == [id |-> nextLikeId, commentId |-> req[r].commentId,
                      userId |-> req[r].user]
          IN IF LikeConstraintsHold(row)
             THEN /\ commentLikes' = commentLikes \cup {row}
                  /\ nextLikeId' = nextLikeId + 1
                  /\ Set([req[r] EXCEPT !.liked = TRUE, !.pc = "t_count"], r)
             ELSE /\ Set(Respond(req[r], 500, "Internal Server Error"), r)
                  /\ UNCHANGED <<commentLikes, nextLikeId>>
  /\ UNCHANGED <<comments, nextCommentId, pager, client, appVars>>

\* variant: the answer carries the requester's own like instead of a count
ToggleCount_OwnLikeOnly(r) ==
  /\ NoResponsePending /\ req[r].kind = "toggle" /\ req[r].pc = "t_count"
  /\ Set([Respond(req[r], 200, "") EXCEPT !.likeCount = IF req[r].liked THEN 1 ELSE 0], r)
  /\ DbUnchanged /\ UNCHANGED <<pager, client, appVars>>

\* select count(...) of the comment's likes, then { liked, likeCount }
ToggleCount(r) ==
  /\ NoResponsePending /\ req[r].kind = "toggle" /\ req[r].pc = "t_count"
  /\ Set([Respond(req[r], 200, "") EXCEPT !.likeCount = CountLikes(req[r].commentId)], r)
  /\ DbUnchanged /\ UNCHANGED <<pager, client, appVars>>

\* -------------------------------------- GET /api/posts/:postId/comments
\* The sequences a query ordered by desc(createdAt) may return for a set of
\* rows: newer rows first, rows of equal createdAt in any order (the order
\* tieBreak, one of the arrangements of the tied rows).
DescOrders(rows) ==
  LET tied == {c \in rows : \E d \in rows : d # c /\ d.createdAt = c.createdAt}
      k == Cardinality(tied)
      tieBreaks == {f \in [1..k -> tied] : \A i, j \in 1..k : f[i] = f[j] => i = j}
      Rank(f, c) == CHOOSE i \in 1..k : f[i] = c
      Before(f, d, c) ==
        \/ d.createdAt > c.createdAt
        \/ d.createdAt = c.createdAt /\ d # c /\ Rank(f, d) < Rank(f, c)
      Index(f, c) == 1 + Cardinality({d \in rows : Before(f, d, c)})
  IN {[i \in 1..Cardinality(rows) |-> CHOOSE c \in rows : Index(f, c) = i] : f \in tieBreaks}

\* variant: replies are unshifted into the sibling list instead of pushed
directReplies_Unshift(allComments, id) ==
  LET IsReply(c) == c.parentCommentId # 0 /\ c.parentCommentId = id
      kept == SelectSeq(allComments, IsReply)
  IN [i \in 1..Len(kept) |-> kept[Len(kept) + 1 - i]]

\* repliesByParentId.get(id) || [] : the rows whose parent is id, in fetch order
directReplies(allComments, id) ==
  LET IsReply(c) == c.parentCommentId # 0 /\ c.parentCommentId = id
  IN SelectSeq(allComments, IsReply)

MapGet(map, key, dflt) == IF key \in DOMAIN map THEN map[key] ELSE dflt

\* variant: the replies of a comment are attached without their own replies
buildNestedComment_OneLevel(comment, allComments, userProfilesMap, commentLikeCountMap) ==
  LET Node(c, replies) ==
        [id |-> c.id, content |-> c.content,
         authorUsername |-> MapGet(userProfilesMap, c.userId, "anonymous"),
         authorId |-> c.userId, createdAt |-> c.createdAt,
         parentCommentId |-> c.parentCommentId, hasLiked |-> FALSE,
         likeCount |-> MapGet(commentLikeCountMap, c.id, 0), replies |-> replies]
      direct == directReplies(allComments, comment.id)
  IN Node(comment, [i \in 1..Len(direct) |-> Node(direct[i], <<>>)])

\* variant: a node is given a replies field only when it has replies
RECURSIVE buildNestedComment_NoRepliesOnLeaf(_, _, _, _)
buildNestedComment_NoRepliesOnLeaf(comment, allComments, userProfilesMap, commentLikeCountMap) ==
  LET replies == directReplies(allComments, comment.id)
      leaf == [id |-> comment.id,
               content |-> comment.content,
               authorUsername |-> MapGet(userProfilesMap, comment.userId, "anonymous"),
               authorId |-> comment.userId,
               createdAt |-> comment.createdAt,
               parentCommentId |-> comment.parentCommentId,
               hasLiked |-> FALSE,
               likeCount |-> MapGet(commentLikeCountMap, comment.id, 0)]
  IN IF Len(replies) = 0 THEN leaf
     ELSE leaf @@ [replies |-> [i \in 1..Len(replies) |->
                     buildNestedComment_NoRepliesOnLeaf(replies[i], allComments,
                                                        userProfilesMap, commentLikeCountMap)]]

RECURSIVE buildNestedComment(_, _, _, _)
buildNestedComment(comment, allComments, userProfilesMap, commentLikeCountMap) ==
  LET replies == directReplies(allComments, comment.id)
  IN [id |-> comment.id,
      content |-> comment.content,
      authorUsername |-> MapGet(userProfilesMap, comment.userId, "anonymous"),
      authorId |-> comment.userId,
      createdAt |-> comment.createdAt,
      parentCommentId |-> comment.parentCommentId,
      hasLiked |-> FALSE,
      likeCount |-> MapGet(commentLikeCountMap, comment.id, 0),
      replies |-> [i \in 1..Len(replies) |->
                     buildNestedComment(replies[i], allComments, userProfilesMap,
                                        commentLikeCountMap)]]

\* allComments.filter(c => !c.parentCommentId)
topLevelComments(allComments) ==
  LET IsRoot(c) == c.parentCommentId = 0
  IN SelectSeq(allComments, IsRoot)

\* variant: the page ends at limit instead of offset + limit
formattedComments_EndIsLimit(q) ==
  LET page == slice(topLevelComments(q.allComments), q.offset, q.limit)
  IN [i \in 1..Len(page) |->
        buildNestedComment(page[i], q.allComments, q.userProfilesMap,
                           q.commentLikeCountMap)]

\* topLevelComments.slice(offset, offset + limit).map(buildNestedComment)
formattedComments(q) ==
  LET page == slice(topLevelComments(q.allComments), q.offset, NumAdd(q.offset, q.limit))
  IN [i \in 1..Len(page) |->
        buildNestedComment(page[i], q.allComments, q.userProfilesMap,
                           q.commentLikeCountMap)]

\* the part of the handler that follows the last awaited query
ListFinish(q) == [Respond(q, 200, "") EXCEPT !.tree = formattedComments(q)]

\* variant: the handler fetches the comments without looking up the post
ListStart_NoPostCheck(r, user, postId, limit, offset) ==
  /\ NoResponsePending /\ req[r].kind = "idle"
  /\ Set([IdleReq EXCEPT !.kind = "list", !.user = user, !.postId = postId,
             !.query = [limit |-> limit, offset |-> offset],
             !.limit = MathMin(parseInt(OrDefault(limit, DefaultLimit)), Num(LimitCap)),
             !.offset = parseInt(OrDefault(offset, DefaultOffset)),
             !.pc = "l_fetch"], r)
  /\ DbUnchanged

\* let currentUserId = null; the authorization header is looked at and never
\* resolved to a session, so the variable keeps its initial value
currentUserId(authorization) == NoUser

\* query parsing and posts.findFirst: 404 when the post is missing. user is
\* the session the authorization header of the request stands for, if any.
ListStart(r, user, postId, limit, offset) ==
  /\ NoResponsePending /\ req[r].kind = "idle"
  /\ LET q == [IdleReq EXCEPT !.kind = "list", !.user = user, !.postId = postId,
                 !.currentUserId = currentUserId(user),
                 !.query = [limit |-> limit, offset |-> offset],
                 !.limit = MathMin(parseInt(OrDefault(limit, DefaultLimit)), Num(LimitCap)),
                 !.offset = parseInt(OrDefault(offset, DefaultOffset))]
     IN Set(IF postId \notin posts THEN Respond(q, 404, "Post not found")
            ELSE [q EXCEPT !.pc = "l_fetch"], r)
  /\ DbUnchanged

\* comments.findMany({ where: eq(postId), orderBy: desc(createdAt) })
ListFetch(r) ==
  /\ NoResponsePending /\ req[r].kind = "list" /\ req[r].pc = "l_fetch"
  /\ \E allComments \in DescOrders({c \in comments : c.postId = req[r].postId}) :
       LET q == [req[r] EXCEPT !.allComments = allComments]
       IN Set(IF allComments = <<>> THEN ListFinish(q)
              ELSE [q EXCEPT !.pc = "l_profiles"], r)
  /\ DbUnchanged /\ UNCHANGED <<pager, client, appVars>>

\* one userProfiles.findFirst per author not yet in userProfilesMap
ListProfile(r) ==
  /\ NoResponsePending /\ req[r].kind = "list" /\ req[r].pc = "l_profiles"
  /\ LET all == req[r].allComments
         todo == {i \in 1..Len(all) : all[i].userId \notin DOMAIN req[r].userProfilesMap}
         i == CHOOSE k \in todo : \A m \in todo : k <= m
         map == req[r].userProfilesMap @@ (all[i].userId :> ProfileName(all[i].userId))
         left == {k \in todo : all[k].userId # all[i].userId}
     IN Set([req[r] EXCEPT !.userProfilesMap = map,
                           !.pc = IF left = {} THEN "l_counts" ELSE "l_profiles"], r)
  /\ DbUnchanged /\ UNCHANGED <<pager, client, appVars>>

\* one like count query per fetched comment; after the last one the tree is
\* built and returned
ListCount(r) ==
  /\ NoResponsePending /\ req[r].kind = "list" /\ req[r].pc = "l_counts"
  /\ LET all == req[r].allComments
         i == Cardinality(DOMAIN req[r].commentLikeCountMap) + 1
         map == req[r].commentLikeCountMap @@ (all[i].id :> CountLikes(all[i].id))
         q == [req[r] EXCEPT !.commentLikeCountMap = map]
     IN Set(IF i = Len(all) THEN ListFinish(q) ELSE q, r)
  /\ DbUnchanged /\ UNCHANGED <<pager, client, appVars>>

\* topLevelComments.slice(offset, offset + limit): the roots handed to map
pageRoots(q) == slice(topLevelComments(q.allComments), q.offset, NumAdd(q.offset, q.limit))

\* The last like count query with the tree assembly unfolded into its calls:
\* stack holds the comments whose buildNestedComment call is still to be made
\* (first the roots of the page), visited the ids of the calls made.
ListCountThenBuild(r) ==
  /\ NoResponsePending /\ req[r].kind = "list" /\ req[r].pc = "l_counts"
  /\ LET all == req[r].allComments
         i == Cardinality(DOMAIN req[r].commentLikeCountMap) + 1
         map == req[r].commentLikeCountMap @@ (all[i].id :> CountLikes(all[i].id))
         q == [req[r] EXCEPT !.commentLikeCountMap = map]
     IN Set(IF i < Len(all) THEN q
            ELSE IF pageRoots(q) = <<>> THEN ListFinish(q)
            ELSE [q EXCEPT !.stack = pageRoots(q), !.pc = "b_visit"], r)
  /\ DbUnchanged /\ UNCHANGED <<pager, client, appVars>>

\* variant: the call of a comment is made again after the calls of its replies
BuildVisit_Again(r) ==
  /\ req[r].kind = "list" /\ req[r].pc = "b_visit"
  /\ LET comment == Head(req[r].stack)
         replies == directReplies(req[r].allComments, comment.id)
     IN Set([req[r] EXCEPT !.visited = Append(@, comment.id),
                           !.stack = replies \o @], r)
  /\ DbUnchanged /\ UNCHANGED <<pager, client, appVars>>

\* one call of buildNestedComment: the comment is taken, its replies are read
\* from repliesByParentId (none when the map has no entry) and their calls
\* come next, in order; after the last call the tree is returned
BuildVisit(r) ==
  /\ req[r].kind = "list" /\ req[r].pc = "b_visit"
  /\ LET comment == Head(req[r].stack)
         replies == directReplies(req[r].allComments, comment.id)
         q == [req[r] EXCEPT !.visited = Append(@, comment.id),
                             !.stack = replies \o Tail(@)]
     IN Set(IF q.stack = <<>> THEN ListFinish(q) ELSE q, r)
  /\ DbUnchanged /\ UNCHANGED <<pager, client, appVars>>

\* the lookup a list request is waiting for
PendingLookup(q) ==
  IF q.pc = "l_fetch" THEN "comments"
  ELSE IF q.pc = "l_profiles" THEN "profile"
  ELSE "likeCount"

\* what the client receives when the handler throws
HandlerError(q) == Respond(q, 500, "Internal Server Error")

\* posts.findFirst rejects: catch logs and rethrows
ListStartThrow(r, user, postId, limit, offset) ==
  /\ NoResponsePending /\ req[r].kind = "idle"
  /\ LET q == [IdleReq EXCEPT !.kind = "list", !.user = user, !.postId = postId,
                 !.currentUserId = currentUserId(user),
                 !.query = [limit |-> limit, offset |-> offset],
                 !.limit = MathMin(parseInt(OrDefault(limit, DefaultLimit)), Num(LimitCap)),
                 !.offset = parseInt(OrDefault(offset, DefaultOffset)),
                 !.failed = "post"]
     IN Set(HandlerError(q), r)
  /\ DbUnchanged /\ UNCHANGED <<pager, client, appVars>>

\* variant: catch answers with the tree of what was gathered so far
ListThrow_PartialTree(r) ==
  /\ NoResponsePending /\ req[r].kind = "list"
  /\ req[r].pc \in {"l_fetch", "l_profiles", "l_counts"}
  /\ Set(ListFinish([req[r] EXCEPT !.failed = PendingLookup(req[r])]), r)
  /\ DbUnchanged /\ UNCHANGED <<pager, client, appVars>>

\* comments.findMany, a userProfiles.findFirst or a like count query rejects:
\* catch logs and rethrows, nothing gathered so far is sent
ListThrow(r) ==
  /\ NoResponsePending /\ req[r].kind = "list"
  /\ req[r].pc \in {"l_fetch", "l_profiles", "l_counts"}
  /\ Set(HandlerError([req[r] EXCEPT !.failed = PendingLookup(req[r])]), r)
  /\ DbUnchanged /\ UNCHANGED <<pager, client, appVars>>

\* ---------- GET /api/posts/:postId/comments of routes/comments.ts (flat page)
\* the relation user: { id, email } joined to a row; the address is kept as
\* its two sides of the @
UserOf(userId) == [id |-> userId, email |-> [local |-> userId, domain |-> "example.org"]]

\* query parsing and posts.findFirst: 404 when the post is missing
FlatListStart(r, postId, limit, offset) ==
  /\ NoResponsePending /\ req[r].kind = "idle"
  /\ LET q == [IdleReq EXCEPT !.kind = "flat", !.postId = postId,
                 !.query = [limit |-> limit, offset |-> offset],
                 !.limit = MathMin(parseInt(OrDefault(limit, DefaultLimit)), Num(LimitCap)),
                 !.offset = parseInt(OrDefault(offset, DefaultOffset))]
     IN Set(IF postId \notin posts THEN Respond(q, 404, "Post not found")
            ELSE [q EXCEPT !.pc = "f_fetch"], r)
  /\ DbUnchanged /\ UNCHANGED <<pager, client, appVars>>

\* comments.findMany({ where, limit, offset, orderBy: desc(createdAt), with: user })
\* for a limit and an offset that are natural numbers: LIMIT and OFFSET of
\* the query cut the page out of all the rows of the post, replies included
FlatListFetch(r) ==
  /\ NoResponsePending /\ req[r].kind = "flat" /\ req[r].pc = "f_fetch"
  /\ ~req[r].limit.nan /\ req[r].limit.v >= 0
  /\ ~req[r].offset.nan /\ req[r].offset.v >= 0
  /\ \E rows \in DescOrders({c \in comments : c.postId = req[r].postId}) :
       LET first == req[r].offset.v + 1
           last == IF req[r].offset.v + req[r].limit.v > Len(rows) THEN Len(rows)
                   ELSE req[r].offset.v + req[r].limit.v
           page == SubSeq(rows, first, last)
       IN Set([Respond(req[r], 200, "") EXCEPT
                 !.tree = [i \in 1..Len(page) |->
                             [id |-> page[i].id, postId |-> page[i].postId,
                              userId |-> page[i].userId, content |-> page[i].content,
                              parentCommentId |-> page[i].parentCommentId,
                              createdAt |-> page[i].createdAt,
                              user |-> UserOf(page[i].userId)]]], r)
  /\ DbUnchanged /\ UNCHANGED <<pager, client, appVars>>

\* --------------------------------------- client: app/post/[id].tsx
Truthy(str) == str # ""
HasField(rec, name) == name \in DOMAIN rec

\* normalizeComment: the display name falls back from authorUsername to
\* user.username, to the local part of user.email, to 'Anonymous'
normalizeComment(rawComment) ==
  [id |-> rawComment.id,
   content |-> rawComment.content,
   authorUsername |->
     IF HasField(rawComment, "authorUsername") /\ Truthy(rawComment.authorUsername)
       THEN rawComment.authorUsername
     ELSE IF HasField(rawComment, "user") /\ HasField(rawComment.user, "username")
             /\ Truthy(rawComment.user.username)
       THEN rawComment.user.username
     ELSE IF HasField(rawComment, "user") /\ HasField(rawComment.user, "email")
             /\ Truthy(rawComment.user.email.local)
       THEN rawComment.user.email.local
     ELSE "Anonymous",
   createdAt |-> rawComment.createdAt,
   parentCommentId |-> rawComment.parentCommentId,
   replies |-> IF HasField(rawComment, "replies") THEN rawComment.replies ELSE <<>>]

\* the object commentMap holds for id once the second pass has pushed every
\* reply into the replies array of its parent, in the order of the input
RECURSIVE commentWithReplies(_, _)
commentWithReplies(id, normalizedComments) ==
  LET IsIt(c) == c.id = id
      same == SelectSeq(normalizedComments, IsIt)
      IsReply(c) == c.parentCommentId # 0 /\ c.parentCommentId = id
      pushed == SelectSeq(normalizedComments, IsReply)
  IN [same[Len(same)] EXCEPT
        !.replies = [i \in 1..Len(pushed) |->
                       commentWithReplies(pushed[i].id, normalizedComments)]]

\* variant: a reply whose parent is not in the map is not pushed anywhere
buildNestedComments_DropOrphans(flatComments) ==
  LET normalizedComments == [i \in 1..Len(flatComments) |-> normalizeComment(flatComments[i])]
      IsRoot(c) == c.parentCommentId = 0
      rootComments == SelectSeq(normalizedComments, IsRoot)
  IN [i \in 1..Len(rootComments) |->
        commentWithReplies(rootComments[i].id, normalizedComments)]

\* buildNestedComments: a comment without parent, or whose parent is not in
\* commentMap, is pushed to rootComments
buildNestedComments(flatComments) ==
  LET normalizedComments == [i \in 1..Len(flatComments) |-> normalizeComment(flatComments[i])]
      ids == {normalizedComments[i].id : i \in 1..Len(normalizedComments)}
      IsRoot(c) == c.parentCommentId = 0 \/ c.parentCommentId \notin ids
      rootComments == SelectSeq(normalizedComments, IsRoot)
  IN [i \in 1..Len(rootComments) |->
        commentWithReplies(rootComments[i].id, normalizedComments)]

\* commentsData.some(c => c.replies && Array.isArray(c.replies) && c.replies.length > 0)
hasNestedStructure(commentsData) ==
  \E i \in 1..Len(commentsData) :
    HasField(commentsData[i], "replies") /\ Len(commentsData[i].replies) > 0

\* variant: the nested path keeps the replies of the roots without their own replies
loadedComments_OneLevel(commentsData) ==
  IF hasNestedStructure(commentsData)
  THEN [i \in 1..Len(commentsData) |->
          LET c == commentsData[i]
          IN [normalizeComment(c) EXCEPT
                !.replies = IF HasField(c, "replies")
                            THEN [j \in 1..Len(c.replies) |->
                                    [normalizeComment(c.replies[j]) EXCEPT !.replies = <<>>]]
                            ELSE <<>>]]
  ELSE buildNestedComments(commentsData)

\* the value loadPostAndComments hands to setComments
loadedComments(commentsData) ==
  IF hasNestedStructure(commentsData)
  THEN [i \in 1..Len(commentsData) |->
          LET c == commentsData[i]
          IN [normalizeComment(c) EXCEPT
                !.replies = IF HasField(c, "replies")
                            THEN [j \in 1..Len(c.replies) |-> normalizeComment(c.replies[j])]
                            ELSE <<>>]]
  ELSE buildNestedComments(commentsData)

\* loadPostAndComments once the comments request has been answered; a failed
\* request is caught and leaves the screen as it is
ClientLoad(r) ==
  /\ req[r].pc = "done" /\ req[r].kind \in {"list", "flat"}
  /\ client' = IF req[r].status = 200
               THEN [client EXCEPT !.comments = loadedComments(req[r].tree),
                                   !.commentsData = req[r].tree, !.loaded = TRUE]
               ELSE client
  /\ Set(IdleReq, r)
  /\ DbUnchanged /\ UNCHANGED <<pager, appVars>>

\* the response has been handed to the client; the slot is free again
Deliver(r) ==
  /\ req[r].pc = "done" /\ ~pager.active
  /\ Set(IdleReq, r)
  /\ DbUnchanged /\ UNCHANGED <<pager, client, appVars>>

\* ------------------------------------------------------------ specification
\* Write path of the comments table: create and delete requests in flight
\* together, starting from the empty tables.
Init ==
  /\ comments = {}
  /\ commentLikes = {}
  /\ nextCommentId = 1
  /\ nextLikeId = 1
  /\ req = [r \in ReqIds |-> IdleReq]
  /\ pager = IdlePager
  /\ client = IdleClient
  /\ AppIdle

Next ==
  \E r \in ReqIds :
    \/ \E u \in Sessions, p \in PostIds, c \in ContentInputs, par \in ParentInputs :
         CreateStart(r, u, p, c, par)
    \/ CreateFindPost(r)
    \/ CreateFindParent(r)
    \/ CreateInsert(r)
    \/ \E u \in Sessions, c \in CommentIdInputs : DeleteStart(r, u, c)
    \/ DeleteFind(r)
    \/ DeleteExec(r)
    \/ Deliver(r)

Spec == Init /\ [][Next]_vars

TypeOK == nextCommentId <= MaxComments + 1 /\ nextLikeId <= MaxLikes + 1

\* ------------------------------------------------------ like specification
\* Toggle-like requests on both connections, with delete requests and the
\* list requests of the first author on the first one, over a reply chain
\* 1 <- 2 <- ... <- n written beforehand by alternating authors.
ChainAuthor(i) == IF i % 2 = 1 THEN "u1" ELSE "u2"
Chain(n) ==
  {[id |-> i, postId |-> "p1", userId |-> ChainAuthor(i), content |-> <<"a">>,
    parentCommentId |-> i - 1, createdAt |-> i] : i \in 1..n}
ChainIdInputs == 1..MaxChain

InitLikes ==
  /\ \E n \in 0..MaxChain : comments = Chain(n) /\ nextCommentId = n + 1
  /\ commentLikes = {}
  /\ nextLikeId = 1
  /\ req = [r \in ReqIds |-> IdleReq]
  /\ pager = IdlePager
  /\ client = IdleClient
  /\ AppIdle

NextLikes ==
  \/ \E r \in ReqIds :
       \/ \E u \in Sessions, c \in ChainIdInputs : ToggleStart(r, u, c)
       \/ ToggleFindComment(r)
       \/ ToggleFindLike(r)
       \/ ToggleWrite(r)
       \/ ToggleCount(r)
       \/ Deliver(r)
  \/ \E u \in Sessions, c \in ChainIdInputs : DeleteStart("r1", u, c)
  \/ DeleteFind("r1")
  \/ DeleteExec("r1")
  \/ \E p \in PostIds : ListStart("r1", "u1", p, Undefined, Undefined) /\ UNCHANGED <<pager, client, appVars>>
  \/ ListFetch("r1")
  \/ ListProfile("r1")
  \/ ListCount("r1")

SpecLikes == InitLikes /\ [][NextLikes]_vars

\* ------------------------------------------------------ edit specification
\* Update, delete, create and toggle-like requests on the first connection
\* while the second one sends update requests, over the reply chain whose
\* comments the second author likes.
ChainLikes(n) ==
  {[id |-> i, commentId |-> i, userId |-> "u2"] :
     i \in 1..(IF n < MaxLikes THEN n ELSE MaxLikes)}

EditIdInputs == 1..MaxEdit

InitEdit ==
  /\ \E n \in 0..MaxEdit :
       /\ comments = Chain(n) /\ nextCommentId = n + 1
       /\ commentLikes = ChainLikes(n) /\ nextLikeId = Cardinality(ChainLikes(n)) + 1
  /\ req = [r \in ReqIds |-> IdleReq]
  /\ pager = IdlePager
  /\ client = IdleClient
  /\ AppIdle

NextEdit ==
  \/ \E u \in Sessions, c \in EditIdInputs, t \in EditInputs : UpdateStart("r1", u, c, t)
  \/ \E u \in Users, c \in EditIdInputs : UpdateStart("r2", u, c, <<"b">>)
  \/ \E r \in ReqIds :
       \/ UpdateFind(r)
       \/ UpdateExec(r)
       \/ Deliver(r)
  \/ \E u \in Sessions, c \in EditIdInputs : DeleteStart("r1", u, c)
  \/ DeleteFind("r1")
  \/ DeleteExec("r1")
  \/ \E p \in {"p0", "p1"}, par \in {0, 1} : CreateStart("r1", "u2", p, <<" ", "a">>, par)
  \/ CreateFindPost("r1")
  \/ CreateFindParent("r1")
  \/ CreateInsert("r1")
  \/ ToggleStart("r1", "u1", 1)
  \/ ToggleFindComment("r1")
  \/ ToggleFindLike("r1")
  \/ ToggleWrite("r1")
  \/ ToggleCount("r1")

SpecEdit == InitEdit /\ [][NextEdit]_vars

\* ------------------------------------------------------ read specification
\* List requests over a forest written beforehand: comment i replies to an
\* older comment or is a root, timestamps never decrease with the id, a
\* reply is on the post of its parent, and one root may be on post p2.
ParentFns(n) == {f \in [1..n -> 0..n] : \A i \in 1..n : f[i] < i}
TimeFns(n) ==
  {t \in [1..n -> 1..n] :
     \A i \in 1..n : IF i = 1 THEN t[i] = 1 ELSE t[i] \in {t[i - 1], t[i - 1] + 1}}

RECURSIVE RootOf(_, _)
RootOf(i, par) == IF par[i] = 0 THEN i ELSE RootOf(par[i], par)

Forest(n, par, ts, other) ==
  {[id |-> i, postId |-> IF RootOf(i, par) = other THEN "p2" ELSE "p1",
    userId |-> ChainAuthor(i), content |-> <<"a">>,
    parentCommentId |-> par[i], createdAt |-> ts[i]] : i \in 1..n}

InitList ==
  /\ \E n \in 0..MaxTree :
       /\ \E par \in ParentFns(n), ts \in TimeFns(n) :
            \E other \in {0} \cup {i \in 1..n : par[i] = 0} :
              comments = Forest(n, par, ts, other)
       /\ nextCommentId = n + 1
  /\ commentLikes = {}
  /\ nextLikeId = 1
  /\ req = [r \in ReqIds |-> IdleReq]
  /\ pager = IdlePager
  /\ client = IdleClient
  /\ AppIdle

NextList ==
  \/ \E p \in PostIds, l \in LimitInputs, o \in OffsetInputs :
       ListStart("r1", NoUser, p, l, o) /\ UNCHANGED <<pager, client, appVars>>
  \/ ListFetch("r1")
  \/ ListProfile("r1")
  \/ ListCount("r1")
  \/ Deliver("r1")

SpecList == InitList /\ [][NextList]_vars

\* ------------------------------------------------- assembly specification
\* The list handler with the tree assembly unfolded call by call and with
\* lookups that may fail, over forests of post p1 with distinct timestamps.
MaxBuild == 4

InitBuild ==
  /\ \E n \in 0..MaxBuild :
       /\ \E par \in ParentFns(n) : comments = Forest(n, par, [i \in 1..n |-> i], 0)
       /\ nextCommentId = n + 1
  /\ commentLikes \in {{}, {[id |-> 1, commentId |-> 1, userId |-> "u1"]}}
  /\ nextLikeId = Cardinality(commentLikes) + 1
  /\ req = [r \in ReqIds |-> IdleReq]
  /\ pager = IdlePager
  /\ client = IdleClient
  /\ AppIdle

NextBuild ==
  \/ \E l \in LimitInputs, o \in OffsetInputs :
       ListStart("r1", NoUser, "p1", l, o) /\ UNCHANGED <<pager, client, appVars>>
  \/ \E l \in LimitInputs, o \in OffsetInputs : ListStartThrow("r1", NoUser, "p1", l, o)
  \/ ListFetch("r1")
  \/ ListProfile("r1")
  \/ ListCountThenBuild("r1")
  \/ BuildVisit("r1")
  \/ ListThrow("r1")
  \/ Deliver("r1")

SpecBuild == InitBuild /\ [][NextBuild]_vars

\* the calls of the assembly are synchronous: once started they run to the end
SpecBuildFair == SpecBuild /\ WF_vars(BuildVisit("r1"))

\* ---------------------------------------------------- paging specification
\* List requests with arbitrary limit and offset strings over a flat list of
\* roots of post p1, and a client that reads the list page by page.
WideLimitInputs ==
  {Undefined, <<>>, <<"0">>, <<"1">>, <<"2">>, <<"-", "1">>, <<"a">>,
   <<" ", "2", "a">>, <<"1", "0", "0">>, <<"1", "5", "0">>}
WideOffsetInputs == {Undefined, <<"0">>, <<"1">>, <<"-", "1">>, <<"a">>, <<"1", "0", "1">>}
PagerLimits == {1, 2, LimitCap, LimitCap + 1}

RootList(n, tie) ==
  {[id |-> i, postId |-> "p1", userId |-> ChainAuthor(i), content |-> <<"a">>,
    parentCommentId |-> 0,
    createdAt |-> IF tie /\ i = n /\ n > 1 THEN n - 1 ELSE i] : i \in 1..n}

InitPaging ==
  /\ \E n \in (0..SmallRoots) \cup ((BigRoots - 1)..BigRoots), tie \in BOOLEAN :
       comments = RootList(n, tie) /\ nextCommentId = n + 1
  /\ commentLikes = {}
  /\ nextLikeId = 1
  /\ req = [r \in ReqIds |-> IdleReq]
  /\ pager = IdlePager
  /\ client = IdleClient
  /\ AppIdle

RECURSIVE ToDigits(_)
ToDigits(n) ==
  IF n < 10 THEN <<DigitChars[n + 1]>> ELSE ToDigits(n \div 10) \o <<DigitChars[(n % 10) + 1]>>

RootCount(post) == Cardinality({c \in comments : c.postId = post /\ c.parentCommentId = 0})

\* the client decides to read the roots of p1 in pages of L
PagerStart(L) ==
  /\ ~pager.active /\ req["r1"].kind = "idle"
  /\ L * MaxPages >= RootCount("p1")
  /\ pager' = [IdlePager EXCEPT !.active = TRUE, !.limit = L]
  /\ DbUnchanged /\ UNCHANGED <<req, client, appVars>>

\* GET /api/posts/p1/comments?limit=L&offset=k*L
PagerRequest ==
  /\ pager.active /\ ~pager.waiting /\ ~pager.done
  /\ ListStart("r1", NoUser, "p1", ToDigits(pager.limit), ToDigits(pager.offset))
  /\ pager' = [pager EXCEPT !.waiting = TRUE]
  /\ UNCHANGED <<client, appVars>>

\* the page arrives: its root ids are kept, the next offset is k*L + L
PagerReceive ==
  /\ pager.waiting /\ req["r1"].pc = "done"
  /\ LET tree == req["r1"].tree
         offset == pager.offset + pager.limit
     IN pager' = [pager EXCEPT !.waiting = FALSE, !.offset = offset,
                               !.pages = Append(@, [i \in 1..Len(tree) |-> tree[i].id]),
                               !.done = offset >= RootCount("p1")]
  /\ Set(IdleReq, "r1")
  /\ DbUnchanged /\ UNCHANGED <<client, appVars>>

PagerReset ==
  /\ pager.done
  /\ pager' = IdlePager
  /\ DbUnchanged /\ UNCHANGED <<req, client, appVars>>

NextPaging ==
  \/ /\ ~pager.active
     /\ \E p \in PostIds, l \in WideLimitInputs, o \in WideOffsetInputs : ListStart("r1", NoUser, p, l, o)
     /\ UNCHANGED <<pager, client, appVars>>
  \/ ListFetch("r1")
  \/ ListProfile("r1")
  \/ ListCount("r1")
  \/ Deliver("r1")
  \/ \E L \in PagerLimits : PagerStart(L)
  \/ PagerRequest
  \/ PagerReceive
  \/ PagerReset

SpecPaging == InitPaging /\ [][NextPaging]_vars

\* ------------------------------------------------ double-toggle specification
\* One client sends a toggle-like request, waits for the answer and sends the
\* same request again; no other request is in flight. The reply chain and up
\* to MaxLikes - 1 likes were written beforehand.
LikeSlots(n) == (1..n) \X Users
LikePairs == {<<l.commentId, l.userId>> : l \in commentLikes}

InitTwice ==
  /\ \E n \in 0..MaxChain :
       /\ comments = Chain(n) /\ nextCommentId = n + 1
       /\ \E k \in 0..(MaxLikes - 1) :
            \E f \in [1..k -> LikeSlots(n)] :
              /\ \A i, j \in 1..k : f[i] = f[j] => i = j
              /\ commentLikes = {[id |-> i, commentId |-> f[i][1], userId |-> f[i][2]] : i \in 1..k}
              /\ nextLikeId = k + 1
  /\ req = [r \in ReqIds |-> IdleReq]
  /\ pager = IdlePager
  /\ client = IdleClient
  /\ AppIdle

\* the first tap on the like button of comment c; the tables are remembered
ClientFirstTap(u, c) ==
  /\ client.sent = 0 /\ req["r1"].kind = "idle"
  /\ nextLikeId + (IF FindLikes(c, u) = {} THEN 1 ELSE 0) <= MaxLikes
  /\ client' = [IdleClient EXCEPT !.user = u, !.commentId = c, !.sent = 1, !.waiting = TRUE,
                                  !.likesBefore = LikePairs, !.countBefore = CountLikes(c)]
  /\ DbUnchanged /\ UNCHANGED <<req, pager, appVars>>

\* the second tap, once the first answer is there
ClientSecondTap ==
  /\ client.sent = 1 /\ ~client.waiting
  /\ client' = [client EXCEPT !.sent = 2, !.waiting = TRUE]
  /\ DbUnchanged /\ UNCHANGED <<req, pager, appVars>>

\* POST /api/comments/:commentId/like arrives at the server
ClientSend ==
  /\ client.waiting
  /\ ToggleStart("r1", client.user, client.commentId)

ClientReceive ==
  /\ client.waiting /\ req["r1"].pc = "done"
  /\ client' = [client EXCEPT !.waiting = FALSE,
                              !.answers = Append(@, [status |-> req["r1"].status,
                                                     liked |-> req["r1"].liked,
                                                     likeCount |-> req["r1"].likeCount])]
  /\ Set(IdleReq, "r1")
  /\ DbUnchanged /\ UNCHANGED <<pager, appVars>>

ClientReset ==
  /\ client.sent = 2 /\ ~client.waiting
  /\ client' = IdleClient
  /\ DbUnchanged /\ UNCHANGED <<req, pager, appVars>>

NextTwice ==
  \/ \E u \in Sessions, c \in ChainIdInputs : ClientFirstTap(u, c)
  \/ ClientSecondTap
  \/ ClientSend
  \/ ToggleFindComment("r1")
  \/ ToggleFindLike("r1")
  \/ ToggleWrite("r1")
  \/ ToggleCount("r1")
  \/ ClientReceive
  \/ ClientReset

SpecTwice == InitTwice /\ [][NextTwice]_vars

\* --------------------------------------------------- nesting specification
\* The post screen loads, once, the comments of a post from either list endpoint: the
\* flat pages of routes/comments.ts or the nested pages of the comment routes.
\* The tree assembly is also run on a fetched sequence from which the rows
\* missing are absent, whatever made them absent.
FlatLimitInputs == {Undefined, <<"1">>, <<"2">>}

InitNest ==
  /\ \E n \in 0..MaxTree :
       /\ \E par \in ParentFns(n), ts \in TimeFns(n) : comments = Forest(n, par, ts, 0)
       /\ nextCommentId = n + 1
  /\ commentLikes = {}
  /\ nextLikeId = 1
  /\ req = [r \in ReqIds |-> IdleReq]
  /\ pager = IdlePager
  /\ client = IdleClient
  /\ AppIdle

ListFetchLossy(r, missing) ==
  /\ NoResponsePending /\ req[r].kind = "list" /\ req[r].pc = "l_fetch"
  /\ missing # {}
  /\ \E allComments \in DescOrders({c \in comments : c.postId = req[r].postId
                                                     /\ c.id \notin missing}) :
       LET q == [req[r] EXCEPT !.allComments = allComments]
       IN Set(IF allComments = <<>> THEN ListFinish(q)
              ELSE [q EXCEPT !.pc = "l_profiles"], r)
  /\ DbUnchanged /\ UNCHANGED <<pager, client, appVars>>

NextNest ==
  \/ /\ ~client.loaded
     /\ \E p \in PostIds, l \in FlatLimitInputs, o \in OffsetInputs : FlatListStart("r1", p, l, o)
  \/ FlatListFetch("r1")
  \/ /\ ~client.loaded
     /\ \E p \in PostIds : ListStart("r1", NoUser, p, Undefined, Undefined)
     /\ UNCHANGED <<pager, client, appVars>>
  \/ ListFetch("r1")
  \/ \E missing \in SUBSET {c.id : c \in comments} : ListFetchLossy("r1", missing)
  \/ ListProfile("r1")
  \/ ListCount("r1")
  \/ ClientLoad("r1")

SpecNest == InitNest /\ [][NextNest]_vars

\* ------------------------------------------------------ home feed screen
commentVars == <<comments, commentLikes, nextCommentId, nextLikeId, req, pager, client>>

\* prevPosts.map(post => post.id === postId ? change(post) : post)
\* (change is the arrow function, as a function on the posts of the list)
MapPost(prevPosts, postId, change) ==
  [i \in 1..Len(prevPosts) |->
     IF prevPosts[i].id = postId THEN change[prevPosts[i]] ELSE prevPosts[i]]

\* handleLike up to its request: the sign-in check, posts.find, wasLiked and
\* the optimistic update. The calls are numbered in the order of the presses.
handleLike(k, postId) ==
  /\ home.calls[k].pc = "idle" /\ \A j \in 1..(k - 1) : home.calls[j].pc # "idle"
  /\ LET found == {i \in 1..Len(home.posts) : home.posts[i].id = postId}
         post == home.posts[CHOOSE i \in found : TRUE]
         Optimistic == [p \in {home.posts[i] : i \in 1..Len(home.posts)} |->
                          [p EXCEPT !.hasLiked = ~p.hasLiked,
                                    !.likeCount = IF p.hasLiked THEN p.likeCount - 1
                                                  ELSE p.likeCount + 1]]
     IN home' = IF home.user = NoUser THEN [home EXCEPT !.showAuthModal = TRUE]
                ELSE IF found = {} THEN home
                ELSE [home EXCEPT
                        !.posts = MapPost(home.posts, postId, Optimistic),
                        !.calls[k] = [IdlePress EXCEPT
                                        !.pc = "request", !.postId = postId,
                                        !.wasLiked = post.hasLiked,
                                        !.before = [hasLiked |-> post.hasLiked,
                                                    likeCount |-> post.likeCount]]]
  /\ UNCHANGED <<commentVars, likes, nextPostLikeId, profiles, createPost, auth>>

\* the like (POST) or unlike (DELETE) request of a call is answered with
\* success: the server has a like of the user afterwards, or none
LikeRequestOk(k) ==
  /\ home.calls[k].pc = "request"
  /\ LET s == home.server
         after == IF home.calls[k].wasLiked
                  THEN [hasLiked |-> FALSE,
                        likeCount |-> IF s.hasLiked THEN s.likeCount - 1 ELSE s.likeCount]
                  ELSE [hasLiked |-> TRUE,
                        likeCount |-> IF s.hasLiked THEN s.likeCount ELSE s.likeCount + 1]
     IN home' = [home EXCEPT !.server = after, !.calls[k].pc = "reload"]
  /\ UNCHANGED <<commentVars, likes, nextPostLikeId, profiles, createPost, auth>>

\* the request of a call fails: the catch block sets hasLiked to wasLiked and
\* moves the likeCount shown now by one
LikeRequestFail(k) ==
  /\ home.calls[k].pc = "request"
  /\ LET wasLiked == home.calls[k].wasLiked
         Revert == [p \in {home.posts[i] : i \in 1..Len(home.posts)} |->
                      [p EXCEPT !.hasLiked = wasLiked,
                                !.likeCount = IF wasLiked THEN p.likeCount + 1
                                              ELSE p.likeCount - 1]]
     IN home' = [home EXCEPT !.posts = MapPost(home.posts, home.calls[k].postId, Revert),
                             !.calls[k].pc = "done"]
  /\ UNCHANGED <<commentVars, likes, nextPostLikeId, profiles, createPost, auth>>

\* loadPosts after a successful request: GET /api/posts is answered with the
\* post as the server has it, or fails (loadPosts then sets an empty list)
ReloadFetch(k, ok) ==
  /\ home.calls[k].pc = "reload"
  /\ home' = [home EXCEPT
                !.calls[k].pc = "apply",
                !.calls[k].response =
                   IF ok THEN <<[id |-> "p1", hasLiked |-> home.server.hasLiked,
                                 likeCount |-> home.server.likeCount]>>
                   ELSE <<>>]
  /\ UNCHANGED <<commentVars, likes, nextPostLikeId, profiles, createPost, auth>>

\* setPosts(response) of loadPosts
ReloadApply(k) ==
  /\ home.calls[k].pc = "apply"
  /\ home' = [home EXCEPT !.posts = home.calls[k].response, !.calls[k].pc = "done"]
  /\ UNCHANGED <<commentVars, likes, nextPostLikeId, profiles, createPost, auth>>

\* ------------------------------------------------- home feed specification
\* A feed showing post p1 as the server has it, and up to MaxPresses presses
\* of its like button whose requests complete in any order.
ServerViews ==
  {v \in [hasLiked : BOOLEAN, likeCount : 0..2] : v.hasLiked => v.likeCount >= 1}

InitHome ==
  /\ CommentsIdle /\ req = [r \in ReqIds |-> IdleReq]
  /\ likes = {} /\ nextPostLikeId = 1 /\ profiles = {}
  /\ createPost = IdleCreatePost /\ auth = IdleAuth
  /\ \E u \in Sessions, v \in ServerViews :
       home = [IdleHome EXCEPT !.user = u, !.server = v,
                 !.posts = <<[id |-> "p1", hasLiked |-> v.hasLiked,
                              likeCount |-> v.likeCount]>>]

NextHome ==
  \E k \in 1..MaxPresses :
    \/ \E p \in {"p1", "p2"} : handleLike(k, p)
    \/ LikeRequestOk(k)
    \/ LikeRequestFail(k)
    \/ \E ok \in BOOLEAN : ReloadFetch(k, ok)
    \/ ReloadApply(k)

SpecHome == InitHome /\ [][NextHome]_vars

\* ----------------------------------------------------- create-post screen
\* Two versions of the screen are in the repository: app/create-post.tsx
\* ("tsx": ten seconds, setTimeout with the rendered count) and part_003
\* ("part": five seconds, setInterval with the previous count).
AdSeconds == 10
AdSecondsPart == 5
Versions == {"tsx", "part"}
InitialCountdown(version) == IF version = "tsx" THEN AdSeconds ELSE AdSecondsPart

\* the screen as mounted
Mounted(version) ==
  [IdleCreatePost EXCEPT !.version = version, !.adCountdown = InitialCountdown(version)]

\* variant: the effect arms the timer whenever the modal is shown
WithTimer_NoZeroCheck(s) ==
  [s EXCEPT !.timer = IF s.showAdModal THEN s.adCountdown ELSE -1]

\* useEffect on [showAdModal, adCountdown]: the pending timer is cleared and,
\* when the modal is shown with a positive count, armed again; timer is the
\* count the callback has captured, -1 when no timer is pending
WithTimer(s) ==
  [s EXCEPT !.timer = IF s.showAdModal /\ s.adCountdown > 0 THEN s.adCountdown ELSE -1]

CanEdit == createPost.version \in Versions /\ ~createPost.showAdModal /\ ~createPost.errorModal

AppUnchanged == UNCHANGED <<commentVars, likes, nextPostLikeId, profiles, home, auth>>

setContent(text) ==
  /\ CanEdit
  /\ createPost' = [createPost EXCEPT !.content = text, !.event = "edit"]
  /\ AppUnchanged

\* pickImage with a picked asset, and removeMedia
setMediaUri(picked) ==
  /\ CanEdit
  /\ createPost' = [createPost EXCEPT !.mediaUri = picked, !.event = "edit"]
  /\ AppUnchanged

\* handleSubmit: an empty post is refused, otherwise the ad modal is shown and
\* the countdown set to its initial value
handleSubmit ==
  /\ CanEdit /\ ~createPost.loading
  /\ createPost' =
       IF trim(createPost.content) = <<>> /\ ~createPost.mediaUri
       THEN [createPost EXCEPT !.errorModal = (createPost.version = "tsx"),
                               !.event = "refused"]
       ELSE WithTimer([createPost EXCEPT
                         !.showAdModal = TRUE,
                         !.adCountdown = InitialCountdown(createPost.version),
                         !.event = "submit"])
  /\ AppUnchanged

\* the timer fires after a second: setAdCountdown(adCountdown - 1) with the
\* count of the render that armed it, or setAdCountdown(prev => prev - 1)
Tick ==
  /\ createPost.timer >= 0
  /\ createPost' =
       WithTimer([createPost EXCEPT
                    !.adCountdown = IF createPost.version = "tsx" THEN createPost.timer - 1
                                    ELSE createPost.adCountdown - 1,
                    !.event = "tick"])
  /\ AppUnchanged

canSkipAd == createPost.adCountdown = 0

\* the continue button of the modal, shown or enabled when canSkipAd
finishPost ==
  /\ createPost.version \in Versions /\ createPost.showAdModal /\ canSkipAd
  /\ createPost' = WithTimer([createPost EXCEPT !.showAdModal = FALSE, !.loading = TRUE,
                                                !.event = "finishPost"])
  /\ AppUnchanged

\* onRequestClose of the ad modal of create-post.tsx
onRequestClose ==
  /\ createPost.version = "tsx" /\ createPost.showAdModal
  /\ createPost' = IF canSkipAd
                    THEN WithTimer([createPost EXCEPT !.showAdModal = FALSE, !.event = "close"])
                    ELSE [createPost EXCEPT !.event = "close"]
  /\ AppUnchanged

\* the upload and POST /api/posts of finishPost end: router.back() leaves the
\* screen, which is mounted afresh the next time; a failure shows the error
PostDone(ok) ==
  /\ createPost.loading
  /\ createPost' = IF ok THEN Mounted(createPost.version)
                    ELSE [createPost EXCEPT !.loading = FALSE, !.errorModal = TRUE,
                                            !.event = "error"]
  /\ AppUnchanged

dismissError ==
  /\ createPost.errorModal
  /\ createPost' = [createPost EXCEPT !.errorModal = FALSE, !.event = "edit"]
  /\ AppUnchanged

\* ----------------------------------------------- create-post specification
InitAd ==
  /\ CommentsIdle /\ req = [r \in ReqIds |-> IdleReq]
  /\ likes = {} /\ nextPostLikeId = 1 /\ profiles = {}
  /\ home = IdleHome /\ auth = IdleAuth
  /\ \E version \in Versions : createPost = Mounted(version)

NextAd ==
  \/ \E text \in {<<>>, <<" ">>, <<" ", "a">>} : setContent(text)
  \/ \E picked \in BOOLEAN : setMediaUri(picked)
  \/ handleSubmit
  \/ Tick
  \/ finishPost
  \/ onRequestClose
  \/ \E ok \in BOOLEAN : PostDone(ok)
  \/ dismissError

SpecAd == InitAd /\ [][NextAd]_vars

\* a pending timer fires
SpecAdFair == SpecAd /\ WF_vars(Tick)

\* ------------------------------------------ POST /api/posts/:postId/like
MaxPostLikes == 2
NoPostLike == [id |-> 0, postId |-> "p0", userId |-> NoUser]
PostLikeUnchanged ==
  UNCHANGED <<comments, commentLikes, nextCommentId, nextLikeId, pager, client,
              profiles, home, createPost, auth>>

\* db.query.likes.findFirst({ where: and(eq(postId), eq(userId)) }): one of
\* the rows that match, if any
FindPostLikes(postId, userId) == {l \in likes : l.postId = postId /\ l.userId = userId}

\* requireAuth of the like and of the unlike handler
PostLikeStart(r, kind, user, postId) ==
  /\ NoResponsePending /\ req[r].kind = "idle"
  /\ nextPostLikeId + InFlight("like") <= MaxPostLikes
  /\ LET q == [IdleReq EXCEPT !.kind = kind, !.user = user, !.postId = postId]
     IN Set(IF user = NoUser THEN Respond(q, 401, "Unauthorized")
            ELSE [q EXCEPT !.pc = "pl_post"], r)
  /\ UNCHANGED <<likes, nextPostLikeId>> /\ PostLikeUnchanged

\* posts.findFirst of either handler: 404 when the post is missing
PostLikeFindPost(r) ==
  /\ NoResponsePending /\ req[r].kind \in {"like", "unlike"} /\ req[r].pc = "pl_post"
  /\ Set(IF req[r].postId \notin posts THEN Respond(req[r], 404, "Post not found")
         ELSE [req[r] EXCEPT !.pc = "pl_existing"], r)
  /\ UNCHANGED <<likes, nextPostLikeId>> /\ PostLikeUnchanged

\* like: likes.findFirst; an existing like is returned as it is
LikeFindLike(r) ==
  /\ NoResponsePending /\ req[r].kind = "like" /\ req[r].pc = "pl_existing"
  /\ LET found == FindPostLikes(req[r].postId, req[r].user)
     IN \E existingLike \in (IF found = {} THEN {NoPostLike} ELSE found) :
          Set(IF existingLike.id # 0
              THEN [Respond(req[r], 200, "Post already liked") EXCEPT
                      !.existingPostLike = existingLike, !.likeId = existingLike.id]
              ELSE [req[r] EXCEPT !.pc = "pl_insert"], r)
  /\ UNCHANGED <<likes, nextPostLikeId>> /\ PostLikeUnchanged

\* constraints of table likes: post_id -> posts.id; the table has no unique
\* index on (post_id, user_id)
PostLikeConstraintsHold(row) == row.postId \in posts

\* like: insert(likes).values({ postId, userId }).returning({ id })
LikeInsert(r) ==
  /\ NoResponsePending /\ req[r].kind = "like" /\ req[r].pc = "pl_insert"
  /\ LET row == [id |-> nextPostLikeId, postId |-> req[r].postId, userId |-> req[r].user]
     IN IF PostLikeConstraintsHold(row)
        THEN /\ likes' = likes \cup {row}
             /\ nextPostLikeId' = nextPostLikeId + 1
             /\ Set([Respond(req[r], 200, "") EXCEPT !.likeId = row.id], r)
        ELSE /\ Set(Respond(req[r], 500, "Internal Server Error"), r)
             /\ UNCHANGED <<likes, nextPostLikeId>>
  /\ PostLikeUnchanged

\* ---------------------------------------- DELETE /api/posts/:postId/like
\* unlike: likes.findFirst; without a like the request succeeds at once
UnlikeFindLike(r) ==
  /\ NoResponsePending /\ req[r].kind = "unlike" /\ req[r].pc = "pl_existing"
  /\ LET found == FindPostLikes(req[r].postId, req[r].user)
     IN \E existingLike \in (IF found = {} THEN {NoPostLike} ELSE found) :
          Set(IF existingLike.id = 0
              THEN Respond(req[r], 200, "Post not liked by user")
              ELSE [req[r] EXCEPT !.existingPostLike = existingLike, !.pc = "pl_delete"], r)
  /\ UNCHANGED <<likes, nextPostLikeId>> /\ PostLikeUnchanged

\* unlike: delete(likes).where(eq(likes.id, existingLike.id))
UnlikeDelete(r) ==
  /\ NoResponsePending /\ req[r].kind = "unlike" /\ req[r].pc = "pl_delete"
  /\ likes' = {l \in likes : l.id # req[r].existingPostLike.id}
  /\ Set(Respond(req[r], 200, ""), r)
  /\ UNCHANGED nextPostLikeId /\ PostLikeUnchanged

\* the response of a post like request has been handed to its client
DeliverPostLike(r) ==
  /\ req[r].pc = "done" /\ req[r].kind \in {"like", "unlike"}
  /\ Set(IdleReq, r)
  /\ UNCHANGED <<likes, nextPostLikeId>> /\ PostLikeUnchanged

\* ------------------------------------------------ post like specification
\* Like and unlike requests on both connections, from the empty table.
InitPostLikes ==
  /\ CommentsIdle /\ req = [r \in ReqIds |-> IdleReq]
  /\ likes = {} /\ nextPostLikeId = 1 /\ profiles = {}
  /\ home = IdleHome /\ createPost = IdleCreatePost /\ auth = IdleAuth

NextPostLikes ==
  \E r \in ReqIds :
    \/ \E kind \in {"like", "unlike"}, u \in Sessions, p \in {"p0", "p1"} :
         PostLikeStart(r, kind, u, p)
    \/ PostLikeFindPost(r)
    \/ LikeFindLike(r)
    \/ LikeInsert(r)
    \/ UnlikeFindLike(r)
    \/ UnlikeDelete(r)
    \/ DeliverPostLike(r)

SpecPostLikes == InitPostLikes /\ [][NextPostLikes]_vars

\* ------------------------------------------ POST /api/users/setup-username
\* A username is the sequence of its characters; a bio that is null is <<>>.
NoProfile == [userId |-> NoUser, username |-> <<>>, bio |-> <<>>]
ProfilesUnchanged ==
  UNCHANGED <<comments, commentLikes, nextCommentId, nextLikeId, pager, client,
              likes, nextPostLikeId, home, createPost, auth>>

\* userProfiles rows by user and by username
ProfileOfUser(userId) ==
  IF \E p \in profiles : p.userId = userId
  THEN CHOOSE p \in profiles : p.userId = userId ELSE NoProfile
ProfilesNamed(username) == {p \in profiles : p.username = username}

\* requireAuth, then the check that the username is a non-empty string
SetupStart(r, user, username) ==
  /\ NoResponsePending /\ req[r].kind = "idle"
  /\ LET q == [IdleReq EXCEPT !.kind = "setup", !.user = user, !.username = username]
     IN Set(IF user = NoUser THEN Respond(q, 401, "Unauthorized")
            ELSE IF InvalidContent(username)
              THEN Respond(q, 400, "Username is required and must be a non-empty string")
            ELSE [q EXCEPT !.newUsername = trim(username), !.pc = "s_user"], r)
  /\ UNCHANGED profiles /\ ProfilesUnchanged

\* select by userId: a user who has a profile gets it back
SetupFindUser(r) ==
  /\ NoResponsePending /\ req[r].kind = "setup" /\ req[r].pc = "s_user"
  /\ LET existingUserProfile == ProfileOfUser(req[r].user)
     IN Set(IF existingUserProfile.userId # NoUser
            THEN [Respond(req[r], 200, "Username already set") EXCEPT
                    !.existingProfile = existingUserProfile]
            ELSE [req[r] EXCEPT !.pc = "s_name"], r)
  /\ UNCHANGED profiles /\ ProfilesUnchanged

\* select by username: 409 when the trimmed username is taken
SetupFindName(r) ==
  /\ NoResponsePending /\ req[r].kind = "setup" /\ req[r].pc = "s_name"
  /\ Set(IF ProfilesNamed(req[r].newUsername) # {}
         THEN Respond(req[r], 409, "Username already taken")
         ELSE [req[r] EXCEPT !.pc = "s_insert"], r)
  /\ UNCHANGED profiles /\ ProfilesUnchanged

\* variant: user_profiles with username declared without unique()
ProfileConstraintsHold_NameNotUnique(row, others) ==
  \A p \in others : p.userId # row.userId

\* user_id and username of user_profiles are both unique
ProfileConstraintsHold(row, others) ==
  \A p \in others : p.userId # row.userId /\ p.username # row.username

\* insert(userProfiles); a constraint violation is caught and answered 500
SetupInsert(r) ==
  /\ NoResponsePending /\ req[r].kind = "setup" /\ req[r].pc = "s_insert"
  /\ LET row == [userId |-> req[r].user, username |-> req[r].newUsername, bio |-> <<>>]
     IN IF ProfileConstraintsHold(row, profiles)
        THEN /\ profiles' = profiles \cup {row}
             /\ Set([Respond(req[r], 200, "Username set successfully") EXCEPT
                       !.existingProfile = row], r)
        ELSE /\ Set(Respond(req[r], 500,
                            "Failed to set up username. Please try again later."), r)
             /\ UNCHANGED profiles
  /\ ProfilesUnchanged

\* ------------------------------------------------- PUT /api/profiles/me
WordChars == {"a", "b", "n", "o", "_"}

ProfileStart(r, user, username, bio) ==
  /\ NoResponsePending /\ req[r].kind = "idle"
  /\ LET q == [IdleReq EXCEPT !.kind = "profile", !.user = user,
                              !.username = username, !.bio = bio]
     IN Set(IF user = NoUser THEN Respond(q, 401, "Unauthorized")
            ELSE [q EXCEPT !.pc = "p_find"], r)
  /\ UNCHANGED profiles /\ ProfilesUnchanged

\* userProfiles.findFirst by userId, then the checks of a username given:
\* 3 to 20 characters, letters, digits and underscores only
ProfileFind(r) ==
  /\ NoResponsePending /\ req[r].kind = "profile" /\ req[r].pc = "p_find"
  /\ LET existingProfile == ProfileOfUser(req[r].user)
         username == req[r].username
         q == [req[r] EXCEPT !.existingProfile = existingProfile]
     IN Set(IF existingProfile.userId = NoUser
              THEN Respond(q, 404, "Profile not found. Please set up username first.")
            ELSE IF username = Undefined
              THEN [q EXCEPT !.newUsername = existingProfile.username, !.pc = "p_update"]
            ELSE IF Len(username) < 3 \/ Len(username) > 20
              THEN Respond(q, 400, "Username must be 3-20 characters long")
            ELSE IF \E i \in 1..Len(username) : username[i] \notin WordChars
              THEN Respond(q, 400, "Username can only contain letters, numbers, and underscores")
            ELSE [q EXCEPT !.newUsername = username,
                           !.pc = IF username # existingProfile.username
                                  THEN "p_name" ELSE "p_update"], r)
  /\ UNCHANGED profiles /\ ProfilesUnchanged

\* userProfiles.findFirst by username: 400 when taken
ProfileFindName(r) ==
  /\ NoResponsePending /\ req[r].kind = "profile" /\ req[r].pc = "p_name"
  /\ Set(IF ProfilesNamed(req[r].newUsername) # {}
         THEN Respond(req[r], 400, "Username already taken")
         ELSE [req[r] EXCEPT !.pc = "p_update"], r)
  /\ UNCHANGED profiles /\ ProfilesUnchanged

\* update(userProfiles).set({ username, bio }).where(eq(userId)); a
\* constraint violation is rethrown
ProfileUpdate(r) ==
  /\ NoResponsePending /\ req[r].kind = "profile" /\ req[r].pc = "p_update"
  /\ LET mine == {p \in profiles : p.userId = req[r].user}
         row == [userId |-> req[r].user, username |-> req[r].newUsername,
                 bio |-> IF req[r].bio # Undefined THEN req[r].bio
                         ELSE req[r].existingProfile.bio]
     IN IF mine = {} THEN Set(Respond(req[r], 200, ""), r) /\ UNCHANGED profiles
        ELSE IF ProfileConstraintsHold(row, profiles \ mine)
        THEN /\ profiles' = (profiles \ mine) \cup {row}
             /\ Set([Respond(req[r], 200, "") EXCEPT !.existingProfile = row], r)
        ELSE /\ Set(Respond(req[r], 500, "Internal Server Error"), r)
             /\ UNCHANGED profiles
  /\ ProfilesUnchanged

\* the response of a username request has been handed to its client
DeliverProfile(r) ==
  /\ req[r].pc = "done" /\ req[r].kind \in {"setup", "profile"}
  /\ Set(IdleReq, r)
  /\ UNCHANGED profiles /\ ProfilesUnchanged

\* --------------------------------------------------- username specification
\* Setup and update requests of two users on both connections, from the
\* empty table.
SetupInputs == {Undefined, <<" ">>, <<" ", "b", "o", "b">>, <<"a", "n", "n">>}
UpdateInputs == {Undefined, <<"b", "o">>, <<"b", "o", " ">>, <<"b", "o", "b">>,
                 <<"a", "n", "n">>}
BioInputs == {Undefined, <<"x">>}

InitProfiles ==
  /\ CommentsIdle /\ req = [r \in ReqIds |-> IdleReq]
  /\ likes = {} /\ nextPostLikeId = 1 /\ profiles = {}
  /\ home = IdleHome /\ createPost = IdleCreatePost /\ auth = IdleAuth

NextProfiles ==
  \E r \in ReqIds :
    \/ \E u \in Sessions, n \in SetupInputs : SetupStart(r, u, n)
    \/ SetupFindUser(r)
    \/ SetupFindName(r)
    \/ SetupInsert(r)
    \/ \E u \in Sessions, n \in UpdateInputs, b \in BioInputs : ProfileStart(r, u, n, b)
    \/ ProfileFind(r)
    \/ ProfileFindName(r)
    \/ ProfileUpdate(r)
    \/ DeliverProfile(r)

SpecProfiles == InitProfiles /\ [][NextProfiles]_vars

\* ------------------------------------------------------------ AuthProvider
\* lib/auth is not part of the sources: clearAuthTokens is taken to remove
\* whatever getSession authenticates with, and setBearerToken and a
\* successful sign-in to store it.
AuthUnchanged ==
  UNCHANGED <<commentVars, likes, nextPostLikeId, profiles, home, createPost>>

\* fetchUser is called (on mount, by a deep link or by the 5-minute poll):
\* setLoading(true) and the getSession request leaves
fetchUser(k) ==
  /\ auth.fetches[k].pc = "idle"
  /\ auth' = [auth EXCEPT !.loading = TRUE, !.fetches[k] = [IdleFetch EXCEPT !.pc = "getSession"]]
  /\ AuthUnchanged

\* authClient.getSession() is answered: the user of the session, no session,
\* or a failure
GetSession(k, ok) ==
  /\ auth.fetches[k].pc = "getSession"
  /\ auth' = [auth EXCEPT
                !.fetches[k] = [pc |-> "apply",
                                result |-> IF ok /\ auth.credential THEN auth.session
                                           ELSE NoUser,
                                threw |-> ~ok]]
  /\ AuthUnchanged

\* the continuation of fetchUser: setUser(session.data.user) or setUser(null)
ApplySession(k) ==
  /\ auth.fetches[k].pc = "apply"
  /\ auth' = [auth EXCEPT !.user = auth.fetches[k].result,
                          !.fetches[k].pc = IF auth.fetches[k].threw THEN "finally"
                                            ELSE "storage"]
  /\ AuthUnchanged

\* await setBearerToken(token) after a session, await clearAuthTokens() after none
SyncStorage(k) ==
  /\ auth.fetches[k].pc = "storage"
  /\ auth' = [auth EXCEPT !.credential = (auth.fetches[k].result # NoUser),
                          !.fetches[k].pc = "finally"]
  /\ AuthUnchanged

\* finally { setLoading(false) }
FetchFinally(k) ==
  /\ auth.fetches[k].pc = "finally"
  /\ auth' = [auth EXCEPT !.loading = FALSE, !.fetches[k] = IdleFetch]
  /\ AuthUnchanged

\* signOut is called: the sign-out request leaves
signOut ==
  /\ auth.signOut = "idle"
  /\ auth' = [auth EXCEPT !.signOut = "api"]
  /\ AuthUnchanged

\* authClient.signOut() ends the session on the server, or fails (caught)
SignOutApi(ok) ==
  /\ auth.signOut = "api"
  /\ auth' = [auth EXCEPT !.session = IF ok THEN NoUser ELSE auth.session,
                          !.signOut = "finally"]
  /\ AuthUnchanged

\* finally { setUser(null); await clearAuthTokens() }
SignOutFinally ==
  /\ auth.signOut = "finally"
  /\ auth' = [auth EXCEPT !.user = NoUser, !.signOut = "clear"]
  /\ AuthUnchanged

\* clearAuthTokens has finished: the signOut call completes
SignOutDone ==
  /\ auth.signOut = "clear"
  /\ auth' = [auth EXCEPT !.credential = FALSE, !.signOut = "idle", !.signedOut = TRUE]
  /\ AuthUnchanged

\* signInWithEmail: authClient.signIn.email succeeds (a session of u1 is
\* opened, fetchUser follows) or returns an error, which is thrown
signInWithEmail(ok) ==
  /\ auth.signIn = "idle" /\ auth.fetches[1].pc = "idle"
  /\ auth' = IF ok
             THEN [auth EXCEPT !.session = "u1", !.credential = TRUE, !.signedOut = FALSE,
                               !.loading = TRUE,
                               !.fetches[1] = [IdleFetch EXCEPT !.pc = "getSession"]]
             ELSE auth
  /\ AuthUnchanged

\* ------------------------------------------------ AuthProvider specification
\* A device that holds a session of u1, or none, with up to MaxFetches calls
\* of fetchUser in flight next to a signOut.
InitAuth ==
  /\ CommentsIdle /\ req = [r \in ReqIds |-> IdleReq]
  /\ likes = {} /\ nextPostLikeId = 1 /\ profiles = {}
  /\ home = IdleHome /\ createPost = IdleCreatePost
  /\ \E u \in {NoUser, "u1"} :
       auth = [IdleAuth EXCEPT !.user = u, !.session = u, !.credential = (u # NoUser)]

NextAuth ==
  \/ \E k \in 1..MaxFetches :
       \/ fetchUser(k)
       \/ \E ok \in BOOLEAN : GetSession(k, ok)
       \/ ApplySession(k)
       \/ SyncStorage(k)
       \/ FetchFinally(k)
  \/ signOut
  \/ \E ok \in BOOLEAN : SignOutApi(ok)
  \/ SignOutFinally
  \/ SignOutDone
  \/ \E ok \in BOOLEAN : signInWithEmail(ok)

SpecAuth == InitAuth /\ [][NextAuth]_vars

\* =================================================================== claims
\* ------------------------------------------------- helpers of the claims
RECURSIVE FlattenNodes(_)
\* every node of a sequence of CommentNodes, nested ones included, once per occurrence
FlattenNodes(nodes) ==
  IF Len(nodes) = 0 THEN <<>>
  ELSE <<nodes[1]>> \o FlattenNodes(nodes[1].replies)
         \o FlattenNodes([i \in 1..(Len(nodes) - 1) |-> nodes[i + 1]])

NodeIds(nodes) == {nodes[i].id : i \in 1..Len(nodes)}
Fetched(q) == {q.allComments[i] : i \in 1..Len(q.allComments)}

RECURSIVE ReachedFrom(_, _)
\* the ids of the rows whose parent chain leads, inside rows, to one of ids
ReachedFrom(ids, rows) ==
  LET more == {c.id : c \in {x \in rows : x.parentCommentId \in ids}} \ ids
  IN IF more = {} THEN ids ELSE ReachedFrom(ids \cup more, rows)

\* the rows whose parent chain is fully resolvable within rows
Resolvable(rows) == ReachedFrom({c.id : c \in {x \in rows : x.parentCommentId = 0}}, rows)

ListDone(r) == req[r].kind = "list" /\ req[r].pc = "done" /\ req[r].status = 200
FetchedRoots(q) == {c \in Fetched(q) : c.parentCommentId = 0}
Position(q, id) == CHOOSE i \in 1..Len(q.allComments) : q.allComments[i].id = id

\* C1 as stated: the response holds as many nodes as the post has comment rows
\* with a resolvable parent chain.
C1_AllResolvableRowsReturned ==
  \A r \in ReqIds : ListDone(r) =>
    Len(FlattenNodes(req[r].tree)) = Cardinality(Resolvable(Fetched(req[r])))

\* C1 amended: the number of nodes of the response, nested replies included,
\* equals the number of fetched rows whose parent chain leads to one of the
\* root comments that offset and limit select for the page.
C1_NodesOfPageCounted ==
  \A r \in ReqIds : ListDone(r) =>
    LET q == req[r]
        roots == {c.id : c \in {x \in FetchedRoots(q) : x.id \in NodeIds(q.tree)}}
    IN Len(FlattenNodes(q.tree)) = Cardinality(ReachedFrom(roots, Fetched(q)))

C1_Witness ==
  \E r \in ReqIds :
    /\ ListDone(r)
    /\ Len(req[r].tree) < Cardinality(FetchedRoots(req[r]))
    /\ \E i \in 1..Len(req[r].tree) :
         Len(req[r].tree[i].replies) > 0 /\ Len(req[r].tree[i].replies[1].replies) > 0

\* C2: under every node of a response, on any page, the nested nodes are
\* exactly the fetched comments whose parent chain reaches the node, each once.
C2_SubtreeComplete ==
  \A r \in ReqIds : ListDone(r) =>
    LET q == req[r]
        all == FlattenNodes(q.tree)
    IN \A i \in 1..Len(all) :
         LET under == FlattenNodes(all[i].replies)
         IN /\ NodeIds(under) = ReachedFrom({all[i].id}, Fetched(q)) \ {all[i].id}
            /\ Len(under) = Cardinality(NodeIds(under))

C2_Witness ==
  \E r \in ReqIds :
    /\ ListDone(r)
    /\ ~req[r].offset.nan /\ req[r].offset.v = 1 /\ req[r].limit.v = 1
    /\ Len(req[r].tree) = 1
    /\ Len(req[r].tree[1].replies) = 1
    /\ Len(req[r].tree[1].replies[1].replies) = 1

\* C3: roots come newest first, the replies of every node are its direct
\* children newest first, and both keep the order of the fetched rows.
NewestFirst(q, nodes) ==
  \A i, j \in 1..Len(nodes) : i < j =>
    /\ nodes[i].createdAt >= nodes[j].createdAt
    /\ Position(q, nodes[i].id) < Position(q, nodes[j].id)

C3_NewestFirst ==
  \A r \in ReqIds : ListDone(r) =>
    LET q == req[r]
        all == FlattenNodes(q.tree)
    IN /\ NewestFirst(q, q.tree)
       /\ \A i \in 1..Len(q.tree) : q.tree[i].parentCommentId = 0
       /\ \A i \in 1..Len(all) :
            /\ NewestFirst(q, all[i].replies)
            /\ NodeIds(all[i].replies) =
                 {c.id : c \in {x \in Fetched(q) : x.parentCommentId = all[i].id}}

C3_Witness ==
  \E r \in ReqIds :
    /\ ListDone(r)
    /\ Len(req[r].tree) = 2
    /\ req[r].tree[1].createdAt > req[r].tree[2].createdAt
    /\ \E i \in 1..2 :
         /\ Len(req[r].tree[i].replies) = 2
         /\ req[r].tree[i].replies[1].createdAt > req[r].tree[i].replies[2].createdAt

\* ------------------------------------------------------------ paging claims
RootsOf(post) == {c \in comments : c.postId = post /\ c.parentCommentId = 0}
PagePositions ==
  UNION {{<<k, i>> : i \in 1..Len(pager.pages[k])} : k \in 1..Len(pager.pages)}
EveryRootOnce ==
  /\ \A c \in RootsOf("p1") :
       Cardinality({x \in PagePositions : pager.pages[x[1]][x[2]] = c.id}) = 1
  /\ \A x \in PagePositions : \E c \in RootsOf("p1") : pager.pages[x[1]][x[2]] = c.id
DistinctTimestamps(rows) == \A c, d \in rows : c.createdAt = d.createdAt => c = d

\* C4 as stated: reading the root list in pages of L, for any L, returns
\* every root exactly once.
C4_EveryRootOnceAnyLimit == pager.done => EveryRootOnce

\* C4 amended: for an unchanged comment set whose roots have pairwise
\* distinct creation timestamps, the pages limit=L, offset=0, L, 2L, ... with
\* 1 <= L <= 100 return every root exactly once.
C4_EveryRootOnceWithinCap ==
  (pager.done /\ pager.limit <= LimitCap /\ DistinctTimestamps(RootsOf("p1")))
    => EveryRootOnce

C4_Witness ==
  /\ pager.done /\ pager.limit = 1
  /\ DistinctTimestamps(RootsOf("p1"))
  /\ pager.pages = <<(<<2>>), (<<1>>)>>

\* C5 as stated: the response never holds more than min(limit, 100) roots
\* (none for a limit below one), whatever the limit and offset strings are.
RequestedLimit(q) == parseInt(OrDefault(q.query.limit, DefaultLimit))
C5_AtMostLimitRoots ==
  \A r \in ReqIds : ListDone(r) =>
    LET asked == RequestedLimit(req[r])
        most == IF asked.nan THEN LimitCap
                ELSE IF asked.v < 0 THEN 0
                ELSE IF asked.v > LimitCap THEN LimitCap ELSE asked.v
    IN Len(req[r].tree) <= most

\* ------------------------------------------------------- write-path claims
\* C6: every stored comment with a parent reference points to a stored comment
\* of the same post, and every parent chain ends at a root: the comments form
\* a forest.
C6_CommentsFormForest ==
  /\ \A c \in comments : c.parentCommentId # 0 =>
       \E p \in comments : p.id = c.parentCommentId /\ p.postId = c.postId
  /\ Resolvable(comments) = {c.id : c \in comments}

\* a reply was refused by the database because its parent was deleted after
\* the handler had found it
C6_Witness ==
  \E r \in ReqIds :
    /\ req[r].kind = "create" /\ req[r].pc = "done" /\ req[r].status = 500
    /\ req[r].parentComment.id = req[r].parentCommentId
    /\ req[r].parentComment.postId = req[r].postId
    /\ FindComment(req[r].parentCommentId).id = 0

SamePostMessage == "Parent comment must belong to the same post"
CreateDone(r) == req[r].kind = "create" /\ req[r].pc = "done"

\* C7: when create-comment looks up a parent that belongs to another post than
\* the one of the path, the request ends with 400 and the same-post message,
\* and the step writes no comment row.
C7_OtherPostParentRejected ==
  [][\A r \in ReqIds :
       (/\ req[r].kind = "create" /\ req[r].pc = "c_parent" /\ req'[r].pc # "c_parent"
        /\ \E p \in comments : p.id = req[r].parentCommentId /\ p.postId # req[r].postId)
       => /\ req'[r].pc = "done" /\ req'[r].status = 400
          /\ req'[r].message = SamePostMessage
          /\ req'[r].created.id = 0
          /\ comments' = comments /\ nextCommentId' = nextCommentId]_vars

C7_Witness ==
  \E r \in ReqIds :
    /\ CreateDone(r) /\ req[r].status = 400 /\ req[r].message = SamePostMessage
    /\ \E p \in comments : p.id = req[r].parentCommentId /\ p.postId # req[r].postId
    /\ ~\E c \in comments : c.parentCommentId = req[r].parentCommentId

\* the answer of the first check that fails, in the order content, post,
\* parent exists, parent on the same post; 200 when none fails
FirstFailure(q) ==
  IF q.content = Undefined \/ Len(trim(q.content)) = 0
    THEN <<400, "Comment content is required and must be non-empty">>
  ELSE IF q.postId \notin posts THEN <<404, "Post not found">>
  ELSE IF q.parentCommentId # 0 /\ q.parentComment.id = 0
    THEN <<404, "Parent comment not found">>
  ELSE IF q.parentCommentId # 0 /\ q.parentComment.postId # q.postId
    THEN <<400, SamePostMessage>>
  ELSE <<200, "">>

\* C8: an authenticated create-comment request answers with the error of the
\* first failing check in the order content, post, parent exists, parent on
\* the same post, and a comment row is inserted only by a request that
\* passed all of them.
C8_ValidationOrder ==
  [][/\ \A r \in ReqIds :
          (req[r].pc # "done" /\ req'[r].pc = "done" /\ req'[r].kind = "create"
           /\ req'[r].user # NoUser)
          => LET q == req'[r]
             IN /\ q.status # 500 => <<q.status, q.message>> = FirstFailure(q)
                /\ q.status = 500 => FirstFailure(q)[1] = 200
                /\ q.created.id # 0 <=> q.status = 200
     /\ {c.id : c \in comments'} \ {c.id : c \in comments} # {} =>
          \E r \in ReqIds :
            /\ req[r].kind = "create" /\ req[r].pc = "c_insert"
            /\ req'[r].pc = "done" /\ req'[r].status = 200
            /\ FirstFailure(req'[r])[1] = 200
            /\ comments' = comments \cup {req'[r].created}]_vars

\* three checks would fail (content, post and parent) and the first answers
C8_Witness ==
  \E r \in ReqIds :
    /\ CreateDone(r) /\ req[r].user # NoUser
    /\ req[r].status = 400 /\ req[r].message # SamePostMessage
    /\ req[r].postId \notin posts
    /\ req[r].parentCommentId # 0 /\ FindComment(req[r].parentCommentId).id = 0

\* -------------------------------------------------------------- like claims
\* C9: there is at most one comment-like row per (comment, author) pair.
C9_OneLikePerAuthor ==
  \A l1, l2 \in commentLikes :
    (l1.commentId = l2.commentId /\ l1.userId = l2.userId) => l1 = l2

\* two toggles of one author on one comment both found no like; the insert of
\* the second was refused and one row is stored
C9_Witness ==
  \E r \in ReqIds :
    /\ req[r].kind = "toggle" /\ req[r].pc = "done" /\ req[r].status = 500
    /\ req[r].existingLike.id = 0
    /\ FindComment(req[r].commentId).id # 0
    /\ Cardinality(FindLikes(req[r].commentId, req[r].user)) = 1

Likers(commentId) == {l.userId : l \in {x \in commentLikes : x.commentId = commentId}}

\* C10: the count that list-comments reads for a comment is the number of
\* distinct authors whose like on that comment is stored at that moment, and
\* every node of the response carries the count read for its comment.
C10_LikeCountIsDistinctAuthors ==
  [][\A r \in ReqIds :
       (/\ req[r].kind = "list" /\ req[r].pc = "l_counts"
        /\ req'[r].commentLikeCountMap # req[r].commentLikeCountMap)
       => LET q == req'[r]
              id == req[r].allComments[Cardinality(DOMAIN req[r].commentLikeCountMap) + 1].id
              nodes == FlattenNodes(q.tree)
          IN /\ q.commentLikeCountMap[id] = Cardinality(Likers(id))
             /\ q.pc = "done" =>
                  /\ Len(nodes) = Len(q.allComments)
                  /\ \A i \in 1..Len(nodes) :
                       nodes[i].likeCount = q.commentLikeCountMap[nodes[i].id]]_vars

C10_Witness ==
  \E r \in ReqIds :
    /\ ListDone(r) /\ Len(req[r].tree) = 1
    /\ req[r].tree[1].likeCount = 2
    /\ Len(req[r].tree[1].replies) = 1
    /\ req[r].tree[1].replies[1].likeCount = 1
    /\ Cardinality(Likers(1)) = 2 /\ Cardinality(Likers(2)) = 1

\* ------------------------------------------------------ double-toggle claim
BothAnswered == client.sent = 2 /\ ~client.waiting

\* C11: after two consecutive toggle-like requests of one author on one
\* comment, with no other request in between, the (comment, author) pairs of
\* the stored likes and the like count of the comment are what they were before
\* the first request; when both succeed the second undoes the first and
\* reports the original count.
C11_ToggleTwiceRestores ==
  BothAnswered =>
    /\ LikePairs = client.likesBefore
    /\ Cardinality(commentLikes) = Cardinality(client.likesBefore)
    /\ CountLikes(client.commentId) = client.countBefore
    /\ (client.answers[1].status = 200 /\ client.answers[2].status = 200) =>
         /\ client.answers[1].liked # client.answers[2].liked
         /\ client.answers[2].likeCount = client.countBefore

\* unlike then like again, on a comment that another author likes as well
C11_Witness ==
  /\ BothAnswered
  /\ client.answers[1].status = 200 /\ client.answers[2].status = 200
  /\ ~client.answers[1].liked /\ client.answers[2].liked
  /\ client.answers[1].likeCount = 1 /\ client.countBefore = 2

\* ------------------------------------------------------------ hasLiked claim
\* C12 as stated: in a list-comments response a node's hasLiked is true exactly
\* when the requester is authenticated and a like of the requester on the
\* node's comment is stored, and false otherwise.
C12_HasLikedReflectsRequester ==
  \A r \in ReqIds : ListDone(r) =>
    LET nodes == FlattenNodes(req[r].tree)
    IN \A i \in 1..Len(nodes) :
         nodes[i].hasLiked =
           (req[r].user # NoUser /\ FindLikes(nodes[i].id, req[r].user) # {})

IdsOf(nodes) == [i \in 1..Len(nodes) |-> nodes[i].id]

\* C14: buildNestedComments places every comment of its flat input exactly
\* once: the comments without parent, or whose parent id is not an input id,
\* are the roots, and every other comment is in the replies of its parent,
\* all in the order of the input.
C14_ClientPlacesEveryComment ==
  (client.loaded /\ ~hasNestedStructure(client.commentsData)) =>
    LET flat == client.commentsData
        ids == NodeIds(flat)
        all == FlattenNodes(client.comments)
        IsRoot(c) == c.parentCommentId = 0 \/ c.parentCommentId \notin ids
    IN /\ Len(all) = Len(flat) /\ NodeIds(all) = ids
       /\ IdsOf(client.comments) = IdsOf(SelectSeq(flat, IsRoot))
       /\ \A i \in 1..Len(all) :
            LET IsChild(c) == c.parentCommentId # 0 /\ c.parentCommentId = all[i].id
            IN IdsOf(all[i].replies) = IdsOf(SelectSeq(flat, IsChild))

\* a flat page that holds a reply without its parent, and a reply to that reply
C14_Witness ==
  /\ client.loaded /\ Len(client.commentsData) = 2
  /\ Len(client.comments) = 1
  /\ client.comments[1].parentCommentId # 0
  /\ Len(client.comments[1].replies) = 1

\* ------------------------------------------------------- response node claims
\* C15: every node of a list-comments response, at any depth, whose author
\* has no profile record is named "anonymous", and every node whose author has
\* a profile carries the username of that profile.
C15_DisplayNames ==
  \A r \in ReqIds : ListDone(r) =>
    LET nodes == FlattenNodes(req[r].tree)
    IN \A i \in 1..Len(nodes) :
         LET found == {p \in userProfiles : p.userId = nodes[i].authorId}
         IN /\ found = {} => nodes[i].authorUsername = "anonymous"
            /\ \A p \in found : nodes[i].authorUsername = p.username

\* an author without profile as a root and as a nested reply, next to an
\* author with a profile
C15_Witness ==
  \E r \in ReqIds :
    /\ ListDone(r)
    /\ \E i, j \in 1..Len(req[r].tree) :
         /\ req[r].tree[i].authorUsername = "anonymous"
         /\ Len(req[r].tree[i].replies) > 0
         /\ req[r].tree[i].replies[1].authorUsername = "anonymous"
         /\ req[r].tree[j].authorUsername = "alice"

RECURSIVE RepliesPresent(_, _)
\* every node below nodes has a replies field, empty when no row of rows
\* replies to the node
RepliesPresent(nodes, rows) ==
  \A i \in 1..Len(nodes) :
    /\ HasField(nodes[i], "replies")
    /\ (~\E c \in rows : c.parentCommentId = nodes[i].id) => nodes[i].replies = <<>>
    /\ RepliesPresent(nodes[i].replies, rows)

\* C16: every node of a list-comments response has a replies field, and the
\* field is the empty sequence when the comment has no replies.
C16_RepliesEmptyNotAbsent ==
  \A r \in ReqIds : ListDone(r) => RepliesPresent(req[r].tree, Fetched(req[r]))

\* a root without replies next to a root whose reply has none
C16_Witness ==
  \E r \in ReqIds :
    /\ ListDone(r)
    /\ \E i, j \in 1..Len(req[r].tree) :
         /\ req[r].tree[i].replies = <<>>
         /\ Len(req[r].tree[j].replies) = 1
         /\ req[r].tree[j].replies[1].replies = <<>>

\* C17: a list-comments request for a post that does not exist is answered
\* 404 'Post not found' by the post lookup; it never reaches the comment,
\* profile or like queries and carries no result of them.
C17_MissingPostNoLookup ==
  \A r \in ReqIds :
    (req[r].kind = "list" /\ req[r].postId \notin posts) =>
      /\ req[r].pc = "done" /\ req[r].status = 404 /\ req[r].message = "Post not found"
      /\ req[r].allComments = <<>> /\ req[r].tree = <<>>
      /\ req[r].userProfilesMap = EmptyMap /\ req[r].commentLikeCountMap = EmptyMap

C17_Witness ==
  \E r \in ReqIds :
    /\ req[r].kind = "list" /\ req[r].pc = "done" /\ req[r].status = 404
    /\ req[r].postId \notin posts /\ comments # {}

\* --------------------------------------------------------------- delete claims
\* C18: the delete of a comment removes exactly that comment, its replies at
\* every depth and the likes on the removed comments; afterwards no stored
\* comment and no stored like refers to a comment that is not stored.
C18_DeleteCascades ==
  [][\A r \in ReqIds :
       (req[r].kind = "delete" /\ req[r].pc = "d_delete" /\ req'[r].pc = "done")
       => LET gone == IF \E c \in comments : c.id = req[r].commentId
                      THEN ReachedFrom({req[r].commentId}, comments) ELSE {}
          IN /\ comments' = {c \in comments : c.id \notin gone}
             /\ commentLikes' = {l \in commentLikes : l.commentId \notin gone}
             /\ \A c \in comments' : c.parentCommentId # 0 =>
                  \E p \in comments' : p.id = c.parentCommentId
             /\ \A l \in commentLikes' : \E c \in comments' : c.id = l.commentId]_vars

\* the first comment of a chain of three or more was deleted while a like on
\* the third had just been written: the chain and the like are gone
C18_Witness ==
  /\ req["r1"].kind = "delete" /\ req["r1"].pc = "done" /\ req["r1"].status = 200
  /\ req["r1"].commentId = 1 /\ nextCommentId >= 4 /\ comments = {}
  /\ req["r2"].kind = "toggle" /\ req["r2"].pc = "t_count" /\ req["r2"].liked
  /\ req["r2"].commentId = 3
  /\ commentLikes = {}

\* ----------------------------------------------------------------- edit claims
OwnerMessage(kind) ==
  IF kind = "update" THEN "You can only update your own comments"
  ELSE "You can only delete your own comments"

\* C19: an update or delete request that finds its comment written by another
\* user than its session ends with 403 and its step changes no comment and no
\* like; a stored comment is changed or removed only by the write of an update
\* or delete request whose session user wrote the comment the request is on
\* (an update changes that comment, a delete removes it with its replies).
C19_OnlyAuthorEdits ==
  [][/\ \A r \in ReqIds :
          (/\ req[r].kind \in {"update", "delete"} /\ req[r].pc \in {"u_find", "d_find"}
           /\ req'[r].pc # req[r].pc
           /\ \E c \in comments : c.id = req[r].commentId /\ c.userId # req[r].user)
          => /\ req'[r].pc = "done" /\ req'[r].status = 403
             /\ req'[r].message = OwnerMessage(req[r].kind)
             /\ comments' = comments /\ commentLikes' = commentLikes
     /\ \A c \in comments : c \notin comments' =>
          \E r \in ReqIds :
            /\ req[r].pc \in {"u_update", "d_delete"} /\ req'[r].pc = "done"
            /\ req[r].user # NoUser
            /\ \E target \in comments :
                 /\ target.id = req[r].commentId /\ target.userId = req[r].user
                 /\ \/ c = target
                    \/ /\ req[r].kind = "delete"
                       /\ c.id \in ReachedFrom({target.id}, comments)]_vars

\* an update of the first comment of the chain by the author of the second
C19_Witness ==
  \E r \in ReqIds :
    /\ req[r].kind = "update" /\ req[r].pc = "done" /\ req[r].status = 403
    /\ ~InvalidContent(req[r].content)
    /\ \E c \in comments : c.id = req[r].commentId /\ c.userId # req[r].user
    /\ commentLikes # {}

\* C20: no step changes the parent, the post, the author or the creation time
\* of a stored comment; the write of an update request stores the trimmed
\* content in the comment it is on and changes no other comment and no like.
C20_RelationsImmutable ==
  [][/\ \A c \in comments, d \in comments' :
          d.id = c.id => /\ d.parentCommentId = c.parentCommentId
                         /\ d.postId = c.postId
                         /\ d.userId = c.userId
                         /\ d.createdAt = c.createdAt
     /\ \A r \in ReqIds :
          (req[r].kind = "update" /\ req[r].pc = "u_update" /\ req'[r].pc = "done")
          => /\ {d.id : d \in comments'} = {c.id : c \in comments}
             /\ \A c \in comments : c.id # req[r].commentId => c \in comments'
             /\ \A d \in comments' :
                  d.id = req[r].commentId => d.content = trim(req[r].content)
             /\ commentLikes' = commentLikes]_vars

\* the second comment of the chain was updated by its author; it is still the
\* reply to the first one, which keeps its content
C20_Witness ==
  \E r \in ReqIds :
    /\ req[r].kind = "update" /\ req[r].pc = "done" /\ req[r].status = 200
    /\ req[r].created.id = 2 /\ req[r].created.content = <<"b">>
    /\ req[r].created.parentCommentId = 1
    /\ req[r].created \in comments
    /\ \E c \in comments : c.id = 1 /\ c.content = <<"a">>

\* the requests that write: create, toggle-like, update and delete
Mutating == {"create", "toggle", "update", "delete"}

\* what a mutating request is about is not stored
TargetMissing(q) ==
  IF q.kind = "create"
  THEN \/ q.postId \notin posts
       \/ q.parentCommentId # 0 /\ FindComment(q.parentCommentId).id = 0
  ELSE FindComment(q.commentId).id = 0

\* the lookup the request is about to run finds nothing
LookupMisses(q) ==
  \/ q.pc = "c_post" /\ q.postId \notin posts
  \/ q.pc = "c_parent" /\ FindComment(q.parentCommentId).id = 0
  \/ q.pc \in {"t_find", "u_find", "d_find"} /\ FindComment(q.commentId).id = 0

NotFoundMessage(q) ==
  IF q.pc = "c_post" THEN "Post not found"
  ELSE IF q.pc = "c_parent" THEN "Parent comment not found"
  ELSE "Comment not found"

\* C21 as stated: every mutating request that ends while its post, its parent
\* comment or its comment is not stored ends with 404 and its last step leaves
\* the comments and the likes unchanged.
C21_MissingTargetIs404 ==
  [][\A r \in ReqIds :
       (/\ req[r].pc # "done" /\ req'[r].pc = "done"
        /\ req'[r].kind \in Mutating /\ TargetMissing(req'[r]))
       => /\ req'[r].status = 404
          /\ comments' = comments /\ commentLikes' = commentLikes]_vars

\* C21: a mutating request that has passed the session check and the content
\* check, and whose lookup finds no post, no parent comment or no comment,
\* ends in that step with 404 and the message of the lookup; the step leaves
\* the comments and the likes unchanged.
C21_MissingAtLookupIs404 ==
  [][\A r \in ReqIds :
       (req[r].kind \in Mutating /\ LookupMisses(req[r]) /\ req'[r] # req[r])
       => /\ req'[r].pc = "done" /\ req'[r].status = 404
          /\ req'[r].message = NotFoundMessage(req[r])
          /\ comments' = comments /\ commentLikes' = commentLikes]_vars

\* a delete of a comment that is not stored was answered 404 while other
\* comments and likes are stored
C21_Witness ==
  \E r \in ReqIds :
    /\ req[r].kind = "delete" /\ req[r].pc = "done" /\ req[r].status = 404
    /\ req[r].message = "Comment not found"
    /\ FindComment(req[r].commentId).id = 0
    /\ comments # {} /\ commentLikes # {}

NoRepeat(s) == \A i, j \in 1..Len(s) : s[i] = s[j] => i = j

\* C22: during the assembly of the tree of a list request no comment is
\* visited twice and every visited comment is a fetched one; the visit of a
\* comment without entry in repliesByParentId adds no further call; an
\* assembly that has started ends, and the ids of the returned tree, in
\* pre-order, are the visits made.
C22_BuildTerminates ==
  /\ [](\A r \in ReqIds : req[r].kind = "list" =>
          /\ NoRepeat(req[r].visited)
          /\ \A i \in 1..Len(req[r].visited) :
               req[r].visited[i] \in {c.id : c \in Fetched(req[r])}
          /\ (req[r].visited # <<>> /\ ListDone(r)) =>
               IdsOf(FlattenNodes(req[r].tree)) = req[r].visited)
  /\ [][\A r \in ReqIds :
          (/\ req[r].pc = "b_visit" /\ req'[r] # req[r]
           /\ directReplies(req[r].allComments, Head(req[r].stack).id) = <<>>)
          => \/ req'[r].stack = Tail(req[r].stack) /\ req'[r].pc = "b_visit"
             \/ Tail(req[r].stack) = <<>> /\ req'[r].pc = "done"]_vars
  /\ \A r \in ReqIds : (req[r].pc = "b_visit") ~> (req[r].pc = "done")

\* a tree of MaxBuild comments in a chain was assembled in as many visits
C22_Witness ==
  \E r \in ReqIds :
    /\ ListDone(r) /\ Len(req[r].visited) = MaxBuild
    /\ Len(req[r].tree) = 1
    /\ \E c \in comments : c.parentCommentId = MaxBuild - 1

\* C23: a list request one of whose lookups failed (the post, the comments, a
\* profile or a like count) ends with status 500 and without tree; a request
\* answered with a tree had every lookup answered.
C23_FailureFailsAll ==
  \A r \in ReqIds : req[r].kind = "list" =>
    /\ req[r].failed # "" =>
         /\ req[r].pc = "done" /\ req[r].status = 500
         /\ req[r].message = "Internal Server Error"
         /\ req[r].tree = <<>>
    /\ (req[r].pc = "done" /\ req[r].tree # <<>>) =>
         /\ req[r].status = 200
         /\ \A c \in Fetched(req[r]) :
              /\ c.userId \in DOMAIN req[r].userProfilesMap
              /\ c.id \in DOMAIN req[r].commentLikeCountMap

\* the second like count query failed after the comments, the profiles and
\* the first count had been read
C23_Witness ==
  \E r \in ReqIds :
    /\ req[r].kind = "list" /\ req[r].failed = "likeCount" /\ req[r].status = 500
    /\ Len(req[r].allComments) >= 2
    /\ Cardinality(DOMAIN req[r].commentLikeCountMap) = 1

RECURSIVE Shape(_)
\* a forest of comment nodes reduced to what both sides carry: the comment,
\* its place and its replies in order
Shape(nodes) ==
  [i \in 1..Len(nodes) |->
     [id |-> nodes[i].id, content |-> nodes[i].content, createdAt |-> nodes[i].createdAt,
      parentCommentId |-> nodes[i].parentCommentId, replies |-> Shape(nodes[i].replies)]]

\* a flat payload of comment rows in which every parent is present
FullFlatList(commentsData) ==
  /\ \A i \in 1..Len(commentsData) :
       /\ HasField(commentsData[i], "userId") /\ ~HasField(commentsData[i], "replies")
       /\ \/ commentsData[i].parentCommentId = 0
          \/ commentsData[i].parentCommentId \in NodeIds(commentsData)
  /\ \A i, j \in 1..Len(commentsData) :
       i < j => commentsData[i].createdAt >= commentsData[j].createdAt

\* the Tree Assembler of the backend run on the rows of a flat payload
AssembledByBackend(rows) ==
  formattedComments([IdleReq EXCEPT !.allComments = rows,
                                    !.limit = parseInt(DefaultLimit),
                                    !.offset = parseInt(DefaultOffset)])

\* C24: from a full flat list (every parent present, newest first) the client
\* builds the forest the backend Tree Assembler builds from the same rows:
\* same roots in the same order, same replies in the same order at every
\* depth; and from a nested payload the client stores the backend tree with
\* every node at its place.
C24_ClientForestIsBackendForest ==
  client.loaded =>
    /\ FullFlatList(client.commentsData) =>
         Shape(client.comments) = Shape(AssembledByBackend(client.commentsData))
    /\ hasNestedStructure(client.commentsData) =>
         Shape(client.comments) = Shape(client.commentsData)

\* a full flat list of a chain of three comments was loaded
C24_Witness ==
  /\ client.loaded /\ FullFlatList(client.commentsData)
  /\ Len(client.commentsData) >= 3
  /\ Len(client.comments) >= 1
  /\ \E i \in 1..Len(client.comments) :
       \E j \in 1..Len(client.comments[i].replies) :
         Len(client.comments[i].replies[j].replies) >= 1

\* the client of the double toggle has received the answer to its last request
LastAnswered == client.sent >= 1 /\ ~client.waiting /\ Len(client.answers) = client.sent

\* C25: a toggle-like request of a signed-in author on a stored comment, with
\* no other request in flight, is answered 200; it has created the author's
\* like when there was none and removed it when there was one, leaving the
\* other likes alone; liked tells whether the like is stored afterwards and
\* likeCount is the number of likes then stored for the comment.
C25_ToggleAnswerMatchesStore ==
  (LastAnswered /\ client.user # NoUser /\ FindComment(client.commentId).id # 0) =>
    LET pair == <<client.commentId, client.user>>
        answer == client.answers[client.sent]
    IN /\ answer.status = 200
       /\ answer.liked = (pair \in LikePairs)
       /\ answer.likeCount = CountLikes(client.commentId)
       /\ client.sent = 1 =>
            /\ (pair \in LikePairs) = (pair \notin client.likesBefore)
            /\ LikePairs \ {pair} = client.likesBefore \ {pair}

\* a like was created on a comment while another comment has a like
C25_Witness ==
  /\ LastAnswered /\ client.sent = 1 /\ client.user # NoUser
  /\ client.answers[1].status = 200 /\ client.answers[1].liked
  /\ client.answers[1].likeCount = 1
  /\ <<client.commentId, client.user>> \in LikePairs
  /\ \E l \in commentLikes : l.commentId # client.commentId

\* what the feed shows of post p1, if it shows it
ShownOf(h) ==
  {[hasLiked |-> h.posts[i].hasLiked, likeCount |-> h.posts[i].likeCount] :
     i \in {j \in 1..Len(h.posts) : h.posts[j].id = "p1"}}

\* C26 as stated: when the request of a press fails, the post shows the
\* hasLiked and the likeCount it showed before that press, whatever other
\* presses and completions came in between; no likeCount shown is below zero.
C26_FailedLikeRestores ==
  /\ [](\A v \in ShownOf(home) : v.likeCount >= 0)
  /\ [][\A k \in 1..MaxPresses :
          (home.calls[k].pc = "request" /\ home'.calls[k].pc = "done")
          => \A v \in ShownOf(home') : v = home.calls[k].before]_vars

\* C27: a submit that is accepted shows the ad modal with the countdown at
\* its initial value, and only a submit with text or media shows it; while
\* the modal is shown a tick lowers the countdown by exactly one and nothing
\* else changes it; the countdown is never below zero; finishPost runs only
\* with the modal shown and the countdown at zero; and, ticks being fair,
\* a shown modal leads to a countdown of zero.
C27_AdCountdown ==
  /\ [](createPost.adCountdown >= 0)
  /\ [][/\ (createPost'.event = "submit" /\ createPost' # createPost)
            => /\ createPost'.showAdModal
               /\ createPost'.adCountdown = InitialCountdown(createPost.version)
        /\ (~createPost.showAdModal /\ createPost'.showAdModal)
            => /\ createPost'.event = "submit"
               /\ trim(createPost.content) # <<>> \/ createPost.mediaUri
        /\ (createPost.showAdModal /\ createPost'.showAdModal)
            => IF createPost'.event = "tick"
               THEN createPost'.adCountdown = createPost.adCountdown - 1
               ELSE createPost'.adCountdown = createPost.adCountdown
        /\ (createPost'.event = "finishPost" /\ createPost' # createPost)
            => createPost.showAdModal /\ createPost.adCountdown = 0]_vars
  /\ createPost.showAdModal ~> (createPost.adCountdown = 0)

\* the modal is shown over a post with media only and the count has come
\* down to zero
C27_Witness ==
  /\ createPost.version = "tsx" /\ createPost.showAdModal /\ createPost.adCountdown = 0
  /\ createPost.mediaUri /\ trim(createPost.content) = <<>>
  /\ createPost.event = "tick"

\* C28 as stated: the table of post likes never holds two rows of one user
\* for one post; a like request that finds a like of its user adds no row and
\* returns that like, and an unlike request that finds none changes nothing
\* and succeeds.
C28_OneLikePerPostAndUser ==
  /\ [](\A l, m \in likes : (l.postId = m.postId /\ l.userId = m.userId) => l = m)
  /\ [][\A r \in ReqIds :
          (req[r].pc = "pl_existing" /\ req'[r] # req[r]) =>
            LET found == FindPostLikes(req[r].postId, req[r].user)
            IN /\ (req[r].kind = "like" /\ found # {}) =>
                    /\ req'[r].pc = "done" /\ req'[r].status = 200
                    /\ req'[r].likeId \in {l.id : l \in found}
                    /\ likes' = likes
               /\ (req[r].kind = "unlike" /\ found = {}) =>
                    /\ req'[r].pc = "done" /\ req'[r].status = 200
                    /\ likes' = likes]_vars

\* C29: no two stored profiles share a username or a user; a setup-username
\* request that finds a profile of its user returns it and changes nothing;
\* a setup or update request whose name lookup or write meets a profile of
\* another user with the requested username is rejected (409, 400, or 500
\* from the unique constraint) and its step leaves the profiles unchanged.
C29_UsernamesUnique ==
  /\ [](\A p, q \in profiles :
          (p.username = q.username \/ p.userId = q.userId) => p = q)
  /\ [][\A r \in ReqIds :
          /\ (/\ req[r].kind = "setup" /\ req[r].pc = "s_user" /\ req'[r] # req[r]
              /\ ProfileOfUser(req[r].user).userId # NoUser)
             => /\ req'[r].pc = "done" /\ req'[r].status = 200
                /\ req'[r].existingProfile = ProfileOfUser(req[r].user)
                /\ profiles' = profiles
          /\ (/\ req[r].pc \in {"s_name", "s_insert", "p_name", "p_update"}
              /\ req'[r] # req[r]
              /\ \E p \in ProfilesNamed(req[r].newUsername) : p.userId # req[r].user)
             => /\ req'[r].pc = "done"
                /\ req'[r].status = IF req[r].pc = "s_name" THEN 409
                                    ELSE IF req[r].pc = "p_name" THEN 400 ELSE 500
                /\ profiles' = profiles]_vars

\* a setup request passed both lookups and lost the username to the other
\* user before its insert
C29_Witness ==
  \E r \in ReqIds :
    /\ req[r].kind = "setup" /\ req[r].pc = "done" /\ req[r].status = 500
    /\ \E p \in ProfilesNamed(req[r].newUsername) : p.userId # req[r].user
    /\ ProfileOfUser(req[r].user) = NoProfile

\* C30 as stated: once a signOut call has completed, the user of the
\* AuthProvider is null until a sign-in succeeds, whether or not the sign-out
\* request failed and whatever fetchUser calls were in flight.
C30_SignedOutStaysNull == auth.signedOut => auth.user = NoUser
====
